---- MODULE Spec2Model ----
(***************************************************************************)
(* sqlbox: the record lifecycle engine (model_methods.js) over a database  *)
(* client created by sqlbox.createClient.                                  *)
(*                                                                         *)
(* The model covers                                                        *)
(*   - the save pipeline of the latest revision (transaction envelope,     *)
(*     hooks, validation, change detection, INSERT / guarded UPDATE),      *)
(*   - get followed by save / modify issued by several callers that share  *)
(*     one client (the pool of createClient, one connection by default),   *)
(*   - the earlier revision whose UPDATE is guarded by a revision column.  *)
(*                                                                         *)
(* JavaScript values are encoded as integers: a number n >= 0 is itself,   *)
(* undefined, null and '' are the negative codes of Enc, and a value       *)
(* >= RefBase is a reference to a mutable object or array in `heap`.  A    *)
(* plain object is a function from its own enumerable property names to    *)
(* values.                                                                 *)
(*                                                                         *)
(* A query is modelled at the moment the connection executes it, together  *)
(* with the callback that receives its result.  The ROLLBACK of a failed   *)
(* save is sent without waiting for it; on the single connection it runs   *)
(* before any statement sent later, so it is modelled where it is sent.    *)
(***************************************************************************)
EXTENDS Integers, Sequences, FiniteSets, TLC

\* ---------------------------------------------------------------- bounds

NProcs == 2
MaxClock == 4
MaxCalls == 2
MaxRev == 4
MaxId == 3
MaxRows == 3
MaxOwned == 2
MaxPools == 3
MaxColumns == 2
MaxHooks == 3
MaxPosts == 2
MaxBranches == 2

\* ------------------------------------------------------- value encoding

Enc == [undef |-> -2, null |-> -1, empty |-> -3, now |-> -5]
UNDEF == Enc.undef
NULL == Enc.null
EMPTYSTR == Enc.empty

RefBase == 10 * 10

Procs == 1 .. NProcs

\* The array and the nested object a caller's record may carry (included
\* relations), and the array copy cloneObject makes for the working copy.
ArrRef(p) == RefBase + 10 * p
ObjRef(p) == RefBase + 10 * p + 1
CloneArrRef(p) == RefBase + 10 * p + 2
Refs == UNION {{ArrRef(p), ObjRef(p), CloneArrRef(p)} : p \in Procs}

IsObject(v) == v >= RefBase
IsArray(v) == v >= RefBase /\ (v % 10) \in {0, 2}

\* if (x): JavaScript truthiness of an encoded value
Truthy(v) == v > 0

EmptyObj == [k \in {} |-> 0]
Has(o, k) == k \in DOMAIN o
Prop(o, k) == IF k \in DOMAIN o THEN o[k] ELSE UNDEF
Put(o, k, v) == [x \in (DOMAIN o) \cup {k} |-> IF x = k THEN v ELSE o[x]]
Del(o, k) == [x \in (DOMAIN o) \ {k} |-> o[x]]
Merge(a, b) == [x \in (DOMAIN a) \cup (DOMAIN b) |-> IF x \in DOMAIN b THEN b[x] ELSE a[x]]

\* ------------------------------------------------------ model descriptor

\* Person (test/models/person.js), reduced to two custom columns, with the
\* implicit columns sqlbox.create appends.
CustomColumns == {"name", "age"}
ColumnNames == CustomColumns \cup {"id", "createdAt", "updatedAt"}

toUnderscore(c) ==
  CASE c = "createdAt" -> "created_at"
    [] c = "updatedAt" -> "updated_at"
    [] OTHER -> c

SourceNames == {toUnderscore(c) : c \in ColumnNames}
NameOfSource(s) == CHOOSE c \in ColumnNames : toUnderscore(c) = s

columnsToSource(o) ==
  [s \in {toUnderscore(c) : c \in ColumnNames \cap DOMAIN o} |-> o[NameOfSource(s)]]

pruneToColumns(o) ==
  [c \in {c \in ColumnNames : c \in DOMAIN o \/ toUnderscore(c) \in DOMAIN o} |->
     IF c \in DOMAIN o THEN o[c] ELSE o[toUnderscore(c)]]

changes(o1, o2) ==
  [k \in {k \in DOMAIN o1 : o1[k] # Prop(o2, k)} |-> o1[k]]

\* A record object: enumerable properties o, and the non-enumerable $meta
\* (hm: it has one, m: $meta.original).
Rec(o, hm, m) == [o |-> o, hm |-> hm, m |-> m]
NoRec == Rec(EmptyObj, FALSE, EmptyObj)

\* A change detection that reports every record as changed
hasChangesAlways(o, hm, m) == TRUE

\* A change detection that looks at every property of the record
hasChangesAny(o, hm, m) ==
  IF ~hm THEN TRUE
  ELSE \E c \in ColumnNames \cup DOMAIN o : Prop(o, c) # Prop(m, c)

hasChanges(o, hm, m) ==
  IF ~hm THEN TRUE
  ELSE \E c \in ColumnNames : Prop(o, c) # Prop(m, c)

\* ----------------------------------------------------------- validation

\* node-validator on the encoded values: check(v).isInt(), check(v).notNull()
isInt(v) == v >= 0 /\ ~IsObject(v)
notNull(v) == v \notin {UNDEF, NULL, EMPTYSTR}

Validations == [age |-> <<"isInt", "notNull">>]

RulePasses(rule, v) ==
  CASE rule = "isInt" -> isInt(v)
    [] rule = "notNull" -> notNull(v)
    [] OTHER -> TRUE

FailedRules(key, v) ==
  SelectSeq(Validations[key], LAMBDA rule : ~RulePasses(rule, v))

\* model.validations in iteration order: key, declared rules
ModelValidations == << [key |-> "age", rules |-> Validations["age"]] >>

\* v.error always pushing a new entry
v_errorPush(errors, key, value, rules, rule) ==
  Append(errors, [key |-> key, value |-> value, expected |-> rules, failed |-> <<rule>>])

\* v.error of validate: the failed rule joins the entry of its key, or a new
\* entry is pushed
v_error(errors, key, value, rules, rule) ==
  IF \E i \in 1..Len(errors) : errors[i].key = key
    THEN LET i == CHOOSE i \in 1..Len(errors) :
                    errors[i].key = key /\ \A j \in 1..(i - 1) : errors[j].key # key
         IN [errors EXCEPT ![i].failed = Append(@, rule)]
    ELSE Append(errors, [key |-> key, value |-> value, expected |-> rules, failed |-> <<rule>>])

\* The rules of one key, from the i-th on, in declaration order
RECURSIVE checkRules(_, _, _, _, _)
checkRules(errors, key, value, rules, i) ==
  IF i > Len(rules) THEN errors
  ELSE checkRules(IF RulePasses(rules[i], value) THEN errors
                  ELSE v_error(errors, key, value, rules, rules[i]),
                  key, value, rules, i + 1)

\* The keys of model.validations, from the k-th on
RECURSIVE checkKeys(_, _, _, _)
checkKeys(errors, vs, o, k) ==
  IF k > Len(vs) THEN errors
  ELSE checkKeys(checkRules(errors, vs[k].key, Prop(o, vs[k].key), vs[k].rules, 1),
                 vs, o, k + 1)

\* err.validationErrors of validate
validationErrors(vs, o) == checkKeys(<<>>, vs, o, 1)

\* A validation that skips the rules of a key the object does not have
validatePresent(o) ==
  {key \in (DOMAIN Validations) \cap (DOMAIN o) : FailedRules(key, o[key]) # <<>>}

\* validate: the keys with at least one failed rule
validate(o) ==
  {key \in DOMAIN Validations : FailedRules(key, Prop(o, key)) # <<>>}

\* --------------------------------------------------------- where clause

\* A where entry: a plain value v (scalar) or an operator map, kept as the
\* sequence of its <<operator, value>> pairs in iteration order.
Scalar(v) == [scalar |-> TRUE, ops |-> << <<"equals", v>> >>]
OpMap(ops) == [scalar |-> FALSE, ops |-> ops]

\* node-sql / SQL: comparison of a column value x with v (NULL is unknown)
SqlHolds(op, x, v) ==
  IF op = "isNull" THEN x = NULL
  ELSE IF op = "isNotNull" THEN x # NULL
  ELSE IF x = NULL \/ v = NULL \/ v = UNDEF THEN FALSE
  ELSE IF op = "equals" THEN x = v
  ELSE IF op = "notEquals" THEN x # v
  ELSE IF op = "gt" THEN x > v
  ELSE IF op = "gte" THEN x >= v
  ELSE IF op = "lt" THEN x < v
  ELSE IF op = "lte" THEN x <= v
  ELSE FALSE

RenameOp(op) ==
  IF op = "not" THEN "notEquals"
  ELSE IF op \in {"eq", "is", "eql"} THEN "equals"
  ELSE op

OpFilter(pair, x) ==
  LET op == RenameOp(pair[1])
      v == pair[2]
  IN IF op = "in" THEN x # NULL /\ x \in v
     ELSE IF v = NULL
       THEN SqlHolds(IF op = "notEquals" THEN "isNotNull" ELSE "isNull", x, UNDEF)
       ELSE SqlHolds(op, x, v)

\* An operator map that matches no row when it names no operator
EntryFilterSome(e, x) ==
  IF e.scalar THEN SqlHolds("equals", x, e.ops[1][2])
  ELSE e.ops # <<>> /\ \A i \in DOMAIN e.ops : OpFilter(e.ops[i], x)

\* An operator map whose filters are alternatives
EntryFilterAny(e, x) ==
  IF e.scalar THEN SqlHolds("equals", x, e.ops[1][2])
  ELSE \E i \in DOMAIN e.ops : OpFilter(e.ops[i], x)

EntryFilter(e, x) ==
  IF e.scalar THEN SqlHolds("equals", x, e.ops[1][2])
  ELSE \A i \in DOMAIN e.ops : OpFilter(e.ops[i], x)

\* A where clause in which an entry of an unknown key matches no row
whereClauseStrict(w, row) ==
  /\ DOMAIN w \subseteq ColumnNames
  /\ \A k \in DOMAIN w : EntryFilter(w[k], row[toUnderscore(k)])

\* whereClause: the rows of a query are those passing the filter of every
\* entry whose key is a declared column; other entries add no filter.
whereClause(w, row) ==
  \A k \in (DOMAIN w) \cap ColumnNames : EntryFilter(w[k], row[toUnderscore(k)])

\* ------------------------------------------------------------- database

\* now() / 'NOW()' in a statement: the server clock
NOW == Enc.now

\* Error codes: BoxError codes, Postgres' unique_violation, and the codes
\* standing for an error passed by a hook and for any other driver error.
NotModified == 304
Forbidden == 403
Conflict == 409
NoRowReturned == 500
NotFound == 404
UnsupportedInclude == 500
ServiceUnavailable == 503
Timeout == 504
DupKey == 23505
ErrEnc == [hook |-> 1, driver |-> 2, dupEntry |-> 3]
HookErr == ErrEnc.hook
DriverErr == ErrEnc.driver
ER_DUP_ENTRY == ErrEnc.dupEntry

NoRow == [s \in SourceNames |-> NULL]

\* Another row already holds this (non-null) name: people.name is UNIQUE
NameTaken(tbl, name, id) ==
  name # NULL /\ \E j \in DOMAIN tbl : j # id /\ tbl[j]["name"] = name

SqlValue(v, now) == IF v = NOW THEN now ELSE IF v = UNDEF THEN NULL ELSE v

\* The unique constraint a row would violate, and the duplicated value
NoDup == [col |-> "", val |-> NULL]
DupOf(tbl, row, id) ==
  IF NameTaken(tbl, row["name"], id) THEN [col |-> "name", val |-> row["name"]]
  ELSE [col |-> "id", val |-> id]

\* dialects/postgres.js getSaveQuery: the columns of the INSERT
getSaveQuery(cols) == Merge(cols, [created_at |-> NOW, updated_at |-> NOW])

\* INSERT ... RETURNING *: code 0 and the new table, or the driver's error.
ExecInsert(tbl, cols, seq, now) ==
  LET given == "id" \in DOMAIN cols
      id == IF given THEN cols["id"] ELSE seq
      row == [s \in SourceNames |->
                IF s = "id" THEN id
                ELSE IF s \in DOMAIN cols THEN SqlValue(cols[s], now) ELSE NULL]
      bad == (given /\ id < 0) \/ id \in DOMAIN tbl \/ NameTaken(tbl, row["name"], id)
  IN [code |-> IF given /\ id < 0 THEN DriverErr ELSE IF bad THEN DupKey ELSE 0,
      tbl |-> IF bad THEN tbl ELSE [j \in (DOMAIN tbl) \cup {id} |-> IF j = id THEN row ELSE tbl[j]],
      rows |-> IF bad THEN {} ELSE {row},
      seq |-> IF given THEN seq ELSE seq + 1,
      dup |-> IF bad /\ ~(given /\ id < 0) THEN DupOf(tbl, row, id) ELSE NoDup]

\* dialects/postgres.js getUpdateQuery: UPDATE .. SET cols, updated_at = now()
\* WHERE <whereClause> RETURNING *
ExecUpdate(tbl, cols, w, now) ==
  LET hit == {j \in DOMAIN tbl : whereClause(w, tbl[j])}
      new(j) == [s \in SourceNames |->
                   IF s = "updated_at" THEN now
                   ELSE IF s \in DOMAIN cols THEN SqlValue(cols[s], now) ELSE tbl[j][s]]
      bad == \E j \in hit : NameTaken(tbl, new(j)["name"], j)
  IN [code |-> IF bad THEN DupKey ELSE 0,
      tbl |-> IF bad THEN tbl ELSE [j \in DOMAIN tbl |-> IF j \in hit THEN new(j) ELSE tbl[j]],
      rows |-> IF bad THEN {} ELSE {new(j) : j \in hit},
      seq |-> 0,
      dup |-> IF bad THEN [col |-> "name", val |-> Prop(cols, "name")] ELSE NoDup]

\* build: the record of a row, with its snapshot in $meta.original
build(row) ==
  LET instance == pruneToColumns(row)
  IN Rec(instance, TRUE, pruneToColumns(instance))

\* ------------------------------------------------------------- dialects

Dialects == {"postgres", "mysql"}
Timestamps == {"created_at", "updated_at"}

\* The statement saveNew sends.  cols: the columns it names with a parameter
\* each; now: the columns its text sets from the function NOW().  Postgres
\* extends the columns by the two timestamps; MySQL keeps the columns of
\* t.insert(obj) and appends the two timestamps to the column list of the
\* text.
SaveQuery(d, cols) ==
  IF d = "mysql"
    THEN [kind |-> "INSERT", cols |-> cols, where |-> EmptyObj, now |-> Timestamps]
    ELSE [kind |-> "INSERT", cols |-> getSaveQuery(cols), where |-> EmptyObj, now |-> {}]

\* The statement saveUpdate sends: SET cols, updated_at = now() WHERE w
UpdateQuery(d, cols, w) ==
  [kind |-> "UPDATE", cols |-> cols, where |-> w, now |-> {"updated_at"}]

\* The columns the text of a statement names twice
NamedTwice(st) == IF st.kind = "INSERT" THEN (DOMAIN st.cols) \cap st.now ELSE {}

isDupEntryError(d, code) ==
  IF d = "mysql" THEN code = ER_DUP_ENTRY ELSE code = DupKey

\* Postgres: the statement RETURNING *; the rows are the written rows
pgExecute(st, tbl, seq, now, last) ==
  LET x == IF st.kind = "UPDATE" THEN ExecUpdate(tbl, st.cols, st.where, now)
                                 ELSE ExecInsert(tbl, st.cols, seq, now)
  IN [code |-> x.code, tbl |-> x.tbl, rows |-> x.rows, dup |-> x.dup,
      seq |-> IF st.kind = "UPDATE" THEN seq ELSE x.seq, last |-> last]

\* MySQL: the statement, then SELECT * WHERE id = LAST_INSERT_ID(); the rows
\* are those of the SELECT when the statement affected a row.  A column named
\* twice is an error; an id of 0 or NULL is generated (AUTO_INCREMENT) and
\* becomes the connection's LAST_INSERT_ID().
myExecute(st, tbl, seq, now, last) ==
  IF st.kind = "UPDATE"
    THEN LET x == ExecUpdate(tbl, st.cols, st.where, now)
         IN [code |-> IF x.code = DupKey THEN ER_DUP_ENTRY ELSE x.code,
             tbl |-> x.tbl,
             rows |-> IF x.rows = {} \/ last \notin DOMAIN x.tbl THEN {} ELSE {x.tbl[last]},
             dup |-> x.dup, seq |-> seq, last |-> last]
  ELSE IF NamedTwice(st) # {}
    THEN [code |-> DriverErr, tbl |-> tbl, rows |-> {}, dup |-> NoDup, seq |-> seq, last |-> last]
  ELSE LET auto == "id" \in DOMAIN st.cols /\ st.cols["id"] \in {0, NULL, UNDEF}
           cols == Merge(IF auto THEN Del(st.cols, "id") ELSE st.cols, [s \in st.now |-> NOW])
           x == ExecInsert(tbl, cols, seq, now)
       IN [code |-> IF x.code = DupKey THEN ER_DUP_ENTRY ELSE x.code,
           tbl |-> x.tbl, rows |-> x.rows, dup |-> x.dup, seq |-> x.seq,
           last |-> IF x.code = 0 THEN seq ELSE last]

\* The driver's result of a statement under the dialect in use
Execute(d, st, tbl, seq, now, last) ==
  IF d = "mysql" THEN myExecute(st, tbl, seq, now, last)
                 ELSE pgExecute(st, tbl, seq, now, last)

\* A piece of text taken from a driver's error: the name of a column, a
\* value, or the text "(col)=(val)"
Piece(is, col, val) == [is |-> is, col |-> col, val |-> val]

\* parseDupEntryError: Postgres returns the match of err.detail (the matched
\* text, then its two groups); MySQL returns [key, value]
parseDupEntryError(d, dup) ==
  IF d = "mysql"
    THEN << Piece("name", dup.col, NULL), Piece("value", "", dup.val) >>
    ELSE << Piece("text", dup.col, dup.val),
            Piece("name", dup.col, NULL), Piece("value", "", dup.val) >>

\* error.conflicts of the 409 of save, from parsedDetail[0], parsedDetail[1]
conflictsOf(parsedDetail) ==
  << [key |-> parsedDetail[1], value |-> parsedDetail[2], expected |-> "unique"] >>

\* ---------------------------------------------------------------- state

VARIABLES
  committed,  \* the table as committed: id -> row
  working,    \* the table as seen on the client's connection
  inTxn,      \* the connection is inside a transaction block
  nextId,     \* the id sequence of the table
  lastInsertId, \* the connection's LAST_INSERT_ID() (MySQL)
  clock,      \* the server clock, advanced by every write
  heap,       \* contents of the mutable arrays / nested objects
  cfg,        \* what the callers and the hooks of a run may do
  pc,         \* per caller: where its current call stands
  calls,      \* per caller: number of save calls made
  obj,        \* per caller: the record object it holds / passes to save
  before,     \* per caller: the deep value of obj when save was called
  clone,      \* per call: the working copy of save
  where,      \* per call: the where object passed to save
  res,        \* per call: the record built from the written row / delivered
  err,        \* per call: the error code delivered (0: none)
  trace,      \* per call: the events of the call, in order
  stmt,       \* per call: the INSERT / UPDATE it issued
  wrote,      \* per call: the clock value of the row it wrote (0: none)
  note,       \* per call: what happened to the record outside the caller
  detail,     \* per call: validationErrors / conflicts of the error delivered
  op,         \* per caller: its last get / first / mget / remove / modify
  revTable,   \* revision variant: the table, id -> row
  revObj,     \* revision variant, per caller: the record it holds
  revQuery,   \* revision variant, per call: the UPDATE it issued
  revErr,     \* revision variant, per call: the error code delivered
  revCalls,   \* revision variant, per caller: number of save calls made
  revPc,      \* revision variant, per caller: where its call stands
  rmod,       \* revision variant, per caller: its modify call
  vcheck,     \* a call of validate: descriptor, object, errors
  qry,        \* a call of all with options: predicate, options, rows delivered
  incl,        \* a call of include: the tables, the records, the queries issued
  par,        \* calls made without a callback, and the callables they returned
  box,        \* sqlbox.js: the clients by name, the dialect, a call on a model
  conv,       \* a row taken through pruneToColumns and columnsToSource
  hk,         \* a save on a model with a hook declared as a list of callbacks
  sib,        \* an include with an array spec: the queries of its branches
  cbk         \* a call of a public operation with a callback, and how it ends

dbVars == <<committed, working, inTxn, nextId, lastInsertId, clock>>
qVars == <<qry>>
yVars == <<box, conv, hk, sib, cbk>>
boxFrame == <<conv, hk, sib, cbk>>
convFrame == <<box, hk, sib, cbk>>
hkFrame == <<box, conv, sib, cbk>>
sibFrame == <<box, conv, hk, cbk>>
cbkFrame == <<box, conv, hk, sib>>
xVars == <<incl, par, yVars>>
oldVars == <<committed, working, inTxn, nextId, lastInsertId, clock, heap, cfg,
             pc, calls, obj, before, clone, where, res, err, trace, stmt, wrote, note,
             detail, op, revTable, revObj, revQuery, revErr, revCalls, revPc, rmod, vcheck,
             qry, incl, par>>
revVars == <<revTable, revObj, revQuery, revErr, revCalls, revPc, rmod, vcheck, qVars, xVars>>
mainVars == <<committed, working, inTxn, nextId, lastInsertId, clock, heap, cfg,
              pc, calls, obj, before, clone, where, res, err, trace, stmt, wrote, note,
              detail, op>>
vars == <<committed, working, inTxn, nextId, lastInsertId, clock, heap, cfg,
          pc, calls, obj, before, clone, where, res, err, trace, stmt, wrote, note,
          detail, op,
          revTable, revObj, revQuery, revErr, revCalls, revPc, rmod, vcheck, qVars, xVars>>

NoStmt == [kind |-> "none", cols |-> EmptyObj, where |-> EmptyObj, now |-> {}]
NoOp == [kind |-> "none", ids |-> {}, where |-> EmptyObj, err |-> 0, val |-> "none",
         out |-> {}, gets |-> 0, mutators |-> 0, saves |-> 0, callbacks |-> 0]
NoDetail == [validationErrors |-> <<>>, conflicts |-> <<>>, dup |-> NoDup]
NoNote == [fetched |-> FALSE, mutated |-> FALSE]

\* The deep value of an object: references replaced by what they hold
Deep(o, h) == [k \in DOMAIN o |-> IF IsObject(o[k]) THEN RefBase + h[o[k]] ELSE o[k]]

\* cloneObject: a shallow copy, except that an array is sliced
cloneObject(o, p) ==
  [k \in DOMAIN o |-> IF IsArray(o[k]) THEN CloneArrRef(p) ELSE o[k]]

cloneHeap(o, p, h) ==
  IF \E k \in DOMAIN o : IsArray(o[k])
    THEN [h EXCEPT ![CloneArrRef(p)] = h[CHOOSE r \in {o[k] : k \in DOMAIN o} : IsArray(r)]]
    ELSE h

\* ---------------------------------------------------------------- hooks

HookNames == {"afterFetch", "beforeValidation", "afterValidation", "beforeSave",
              "afterCreate", "afterUpdate", "afterSave"}

\* What one run of a hook (one callback, or a list of them) may do to the
\* record it is handed: nothing (also: no hook declared), assign a declared
\* column, assign another property, change a nested object or array of the
\* record in place, or pass an error to its callback.
HookFx(o, fx) ==
  IF fx = "setName" THEN Put(o, "name", 1)
  ELSE IF fx = "setAge" THEN Put(o, "age", 1)
  ELSE IF fx = "unsetAge" THEN Put(o, "age", NULL)
  ELSE IF fx = "prop" THEN Put(o, "password", 1)
  ELSE IF fx = "derive" THEN (IF Truthy(Prop(o, "password")) THEN Put(o, "name", 1) ELSE o)
  ELSE o

HookHeap(o, fx, h) ==
  IF fx = "inplace"
    THEN [r \in DOMAIN h |-> IF r \in {o[k] : k \in DOMAIN o} THEN 1 ELSE h[r]]
    ELSE h

\* ------------------------------------------------------------- callers

Row1 == [s \in SourceNames |-> IF s = "id" THEN 1 ELSE 0]

\* get(id [, {include: ...}]): SELECT, build, afterFetch, include
Fetch(p) ==
  /\ pc[p] = "idle"
  /\ \E id \in DOMAIN working, fx \in cfg.fx["afterFetch"] \ {"err"}, inc \in cfg.include :
       LET r == build(working[id])
           o1 == HookFx(r.o, fx)
           o2 == IF inc THEN Merge(o1, [posts |-> ArrRef(p), account |-> ObjRef(p)]) ELSE o1
       IN /\ obj' = [obj EXCEPT ![p] = Rec(o2, TRUE, r.m)]
          /\ note' = [note EXCEPT ![p] = [fetched |-> TRUE, mutated |-> FALSE]]
  /\ pc' = [pc EXCEPT ![p] = "have"]
  /\ UNCHANGED <<dbVars, heap, cfg, calls, before, clone, where, res, err, trace, stmt, wrote,
                  detail>>
  /\ UNCHANGED <<revVars, op>>

\* What the caller does to the record it holds before it saves it
Mutate(o, mu) ==
  IF mu = "age" THEN Put(o, "age", Prop(o, "age") + 1)
  ELSE IF mu = "name" THEN Put(o, "name", 1)
  ELSE IF mu = "unsetAge" THEN Put(o, "age", NULL)
  ELSE IF mu = "password" THEN Put(o, "password", 1)
  ELSE o

\* The where object the caller passes, built from the record as it read it
WhereOf(kind, o) ==
  IF kind = "same" THEN [age |-> Scalar(Prop(o, "age"))]
  ELSE IF kind = "other" THEN [age |-> Scalar(Prop(o, "age") + 1)]
  ELSE IF kind = "id" THEN [id |-> Scalar(Prop(o, "id") + 1)]
  ELSE IF kind = "bogus" THEN [bogus |-> Scalar(1)]
  ELSE IF kind = "lt" THEN [age |-> OpMap(<< <<"lt", 1>> >>)]
  ELSE IF kind = "date" THEN [updatedAt |-> OpMap(<<>>)]
  ELSE IF kind = "idAge" THEN [id |-> Scalar(Prop(o, "id") + 1), age |-> Scalar(Prop(o, "age"))]
  ELSE EmptyObj

\* A where object that keeps the entries of the caller's only when the
\* caller passed no id entry
whereFreshId(w, o) ==
  IF "id" \in DOMAIN w THEN [id |-> Scalar(Prop(o, "id"))] ELSE Put(w, "id", Scalar(Prop(o, "id")))

\* saveUpdate: where.id = obj.id, on the where object of the caller
whereWithId(w, o) == Put(w, "id", Scalar(Prop(o, "id")))

\* save(model, obj, where, mainCallback) up to async.series: the clone
StartSave(p, r, w, mutated) ==
  /\ obj' = [obj EXCEPT ![p] = r]
  /\ heap' = cloneHeap(r.o, p, heap)
  /\ before' = [before EXCEPT ![p] = Deep(r.o, heap)]
  /\ clone' = [clone EXCEPT ![p] = cloneObject(r.o, p)]
  /\ where' = [where EXCEPT ![p] = w]
  /\ res' = [res EXCEPT ![p] = NoRec]
  /\ err' = [err EXCEPT ![p] = 0]
  /\ trace' = [trace EXCEPT ![p] = <<>>]
  /\ stmt' = [stmt EXCEPT ![p] = NoStmt]
  /\ wrote' = [wrote EXCEPT ![p] = 0]
  /\ note' = [note EXCEPT ![p] = [@ EXCEPT !.mutated = @ \/ mutated]]
  /\ detail' = [detail EXCEPT ![p] = NoDetail]
  /\ calls' = [calls EXCEPT ![p] = @ + 1]
  /\ pc' = [pc EXCEPT ![p] = "beginTxn"]
  /\ UNCHANGED <<dbVars, cfg>>
  /\ UNCHANGED revVars

\* The caller changes the record it fetched (or not) and saves it
CallSave(p) ==
  /\ pc[p] = "have"
  /\ calls[p] < cfg.maxCalls
  /\ \E mu \in cfg.mutations, wk \in cfg.wheres :
       StartSave(p, [obj[p] EXCEPT !.o = Mutate(@, mu)], WhereOf(wk, obj[p].o), mu # "none")
  /\ UNCHANGED op

\* The caller saves an object literal
CallSaveNew(p) ==
  /\ pc[p] = "idle"
  /\ calls[p] < cfg.maxCalls
  /\ \E lit \in cfg.literals :
       /\ StartSave(p, Rec(lit, FALSE, EmptyObj), EmptyObj, TRUE)
  /\ UNCHANGED op

\* The caller saves an object literal and passes a where object
CallSaveNewWhere(p) ==
  /\ pc[p] = "idle"
  /\ calls[p] < cfg.maxCalls
  /\ \E lit \in cfg.literals, wk \in cfg.wheres \cap {"none", "date", "bogus"} :
       StartSave(p, Rec(lit, FALSE, EmptyObj), WhereOf(wk, lit), TRUE)
  /\ UNCHANGED op

\* The caller goes on with what save delivered (its own record on an error)
Again(p) ==
  /\ pc[p] = "done"
  /\ calls[p] < cfg.maxCalls
  /\ obj' = [obj EXCEPT ![p] = IF err[p] = 0 THEN res[p] ELSE @]
  /\ note' = [note EXCEPT ![p] =
                IF err[p] = 0 THEN [fetched |-> TRUE, mutated |-> FALSE] ELSE @]
  /\ pc' = [pc EXCEPT ![p] = "have"]
  /\ UNCHANGED <<dbVars, heap, cfg, calls, before, clone, where, res, err, trace, stmt, wrote,
                  detail>>
  /\ UNCHANGED <<revVars, op>>

\* ------------------------------------------------------ the save pipeline

\* The order of the earlier revision of save: beforeSave, then validation
SeriesNextOld(step) ==
  CASE step = "beginTxn" -> "beforeSave"
    [] step = "beforeSave" -> "validation"
    [] step = "validation" -> "saved"
    [] step = "saved" -> "afterFetch"
    [] step = "afterFetch" -> "afterWrite"
    [] step = "afterWrite" -> "afterSave"
    [] step = "afterSave" -> "commitTxn"
    [] OTHER -> "done"

\* The order of the steps of a save whose steps all succeed: the tasks of
\* async.series in save, and inside `saved` the statement, build (afterFetch)
\* and runHooks of saveNew / saveUpdate.
SeriesNext(step) ==
  CASE step = "beginTxn" -> "beforeValidation"
    [] step = "beforeValidation" -> "validation"
    [] step = "validation" -> "afterValidation"
    [] step = "afterValidation" -> "beforeSave"
    [] step = "beforeSave" -> "saved"
    [] step = "saved" -> "afterFetch"
    [] step = "afterFetch" -> "afterWrite"
    [] step = "afterWrite" -> "afterSave"
    [] step = "afterSave" -> "commitTxn"
    [] OTHER -> "done"

PreSteps == {"beforeValidation", "afterValidation", "beforeSave"}
PostSteps == {"afterFetch", "afterWrite", "afterSave"}

\* The callback of async.series in save: on any error a ROLLBACK is sent,
\* then the outcome goes to the caller.  e: the error of the series (0:
\* none); tr: the events so far; c, w, t: the database after the step that
\* ended the series; r: results.saved; cl: the working copy.
Finish(p, e, tr, c, w, t, r, cl) ==
  /\ committed' = c
  /\ working' = IF e # 0 /\ t THEN c ELSE w
  /\ inTxn' = IF e # 0 THEN FALSE ELSE t
  /\ err' = [err EXCEPT ![p] =
               IF e = NotModified THEN 0
               ELSE IF isDupEntryError(cfg.dialect, e) THEN Conflict ELSE e]
  /\ res' = [res EXCEPT ![p] =
               IF e = NotModified THEN Rec(cl, obj[p].hm, obj[p].m)
               ELSE IF e # 0 THEN NoRec ELSE r]
  /\ trace' = [trace EXCEPT ![p] =
                 tr \o (IF e # 0 THEN <<"ROLLBACK">> ELSE <<>>) \o <<"callback">>]
  /\ pc' = [pc EXCEPT ![p] = "done"]

\* beginTxn: client.query('BEGIN')
BeginTxn(p) ==
  /\ pc[p] = "beginTxn"
  /\ \E fault \in cfg.faults :
       IF fault
         THEN Finish(p, DriverErr, <<"BEGIN">>, committed, working, inTxn, NoRec, clone[p])
         ELSE /\ inTxn' = TRUE
              /\ trace' = [trace EXCEPT ![p] = <<"BEGIN">>]
              /\ pc' = [pc EXCEPT ![p] = SeriesNext("beginTxn")]
              /\ UNCHANGED <<committed, working, err, res>>
  /\ UNCHANGED <<nextId, lastInsertId, clock, heap, cfg, calls, obj, before, clone, where,
                  stmt, wrote, note, detail>>
  /\ UNCHANGED <<revVars, op>>

HookOf(p) ==
  IF pc[p] = "afterWrite"
    THEN (IF stmt[p].kind = "INSERT" THEN "afterCreate" ELSE "afterUpdate")
    ELSE pc[p]

\* runHook: one hook of the pipeline, on the working copy before the write
\* and on the record built from the written row after it.  The hasChanges
\* task follows afterValidation in the same turn.
RunHook(p) ==
  /\ pc[p] \in PreSteps \cup PostSteps
  /\ \E fx \in cfg.fx[HookOf(p)] :
       LET pre == pc[p] \in PreSteps
           o == IF pre THEN clone[p] ELSE res[p].o
           o2 == HookFx(o, fx)
           cl == IF pre THEN o2 ELSE clone[p]
           tr == Append(trace[p], HookOf(p))
       IN /\ heap' = HookHeap(o, fx, heap)
          /\ clone' = [clone EXCEPT ![p] = cl]
          /\ IF fx = "err"
               THEN Finish(p, HookErr, tr, committed, working, inTxn, NoRec, cl)
               ELSE IF pc[p] = "afterValidation" /\ ~hasChanges(cl, obj[p].hm, obj[p].m)
                 THEN Finish(p, NotModified, tr, committed, working, inTxn, NoRec, cl)
                 ELSE /\ res' = [res EXCEPT ![p] = IF pre THEN @ ELSE [@ EXCEPT !.o = o2]]
                      /\ trace' = [trace EXCEPT ![p] = tr]
                      /\ pc' = [pc EXCEPT ![p] = SeriesNext(pc[p])]
                      /\ UNCHANGED <<committed, working, inTxn, err>>
  /\ UNCHANGED <<nextId, lastInsertId, clock, cfg, calls, obj, before, where, stmt, wrote,
                  note, detail>>
  /\ UNCHANGED <<revVars, op>>

\* validation: validate(model, clone)
Validation(p) ==
  /\ pc[p] = "validation"
  /\ LET tr == Append(trace[p], "validation")
     IN IF validate(clone[p]) # {}
          THEN Finish(p, Forbidden, tr, committed, working, inTxn, NoRec, clone[p])
          ELSE /\ trace' = [trace EXCEPT ![p] = tr]
               /\ pc' = [pc EXCEPT ![p] = SeriesNext("validation")]
               /\ UNCHANGED <<committed, working, inTxn, err, res>>
  /\ detail' = [detail EXCEPT ![p].validationErrors =
                  validationErrors(ModelValidations, clone[p])]
  /\ UNCHANGED <<nextId, lastInsertId, clock, heap, cfg, calls, obj, before, clone, where,
                  stmt, wrote, note>>
  /\ UNCHANGED <<revVars, op>>

\* saved: saveUpdate when clone.id is truthy, saveNew otherwise; the
\* statement executes on the connection and its row is built.
Saved(p) ==
  /\ pc[p] = "saved"
  /\ clock < MaxClock
  /\ \E fault \in cfg.faults :
       LET isUpd == Truthy(Prop(clone[p], "id"))
           w2 == whereWithId(where[p], clone[p])
           o2 == Del(Del(Del(clone[p], "id"), "createdAt"), "updatedAt")
           changeSet == IF obj[p].hm THEN changes(o2, obj[p].m) ELSE o2
           st == IF isUpd THEN UpdateQuery(cfg.dialect, columnsToSource(changeSet), w2)
                         ELSE SaveQuery(cfg.dialect, columnsToSource(clone[p]))
           x == Execute(cfg.dialect, st, working, nextId, clock, lastInsertId)
           after == IF fault \/ x.code # 0 THEN working ELSE x.tbl
           tr == Append(trace[p], st.kind)
           cl == IF isUpd THEN o2 ELSE clone[p]
           ok == ~fault /\ x.code = 0 /\ x.rows # {}
           e == IF fault THEN DriverErr
                ELSE IF x.code # 0 THEN x.code
                ELSE IF isUpd THEN Conflict ELSE NoRowReturned
       IN /\ stmt' = [stmt EXCEPT ![p] = st]
          /\ where' = [where EXCEPT ![p] = IF isUpd THEN w2 ELSE @]
          /\ clone' = [clone EXCEPT ![p] = cl]
          /\ nextId' = IF fault THEN nextId ELSE x.seq
          /\ lastInsertId' = IF fault THEN lastInsertId ELSE x.last
          /\ detail' = [detail EXCEPT ![p] =
                          IF ~fault /\ isDupEntryError(cfg.dialect, x.code)
                            THEN [@ EXCEPT !.dup = x.dup,
                                           !.conflicts = conflictsOf(
                                              parseDupEntryError(cfg.dialect, x.dup))]
                            ELSE @]
          /\ clock' = IF ok THEN clock + 1 ELSE clock
          /\ wrote' = [wrote EXCEPT ![p] = IF ok THEN clock ELSE 0]
          /\ IF ok
               THEN /\ working' = x.tbl
                    /\ committed' = IF inTxn THEN committed ELSE x.tbl
                    /\ res' = [res EXCEPT ![p] = build(CHOOSE row \in x.rows : TRUE)]
                    /\ trace' = [trace EXCEPT ![p] = tr]
                    /\ pc' = [pc EXCEPT ![p] = SeriesNext("saved")]
                    /\ UNCHANGED <<inTxn, err>>
               ELSE Finish(p, e, tr, IF inTxn THEN committed ELSE after, after, inTxn,
                           NoRec, cl)
  /\ UNCHANGED <<heap, cfg, calls, obj, before, note>>
  /\ UNCHANGED <<revVars, op>>

\* commitTxn: client.query('COMMIT'), then the callback of the series
Commit(p) ==
  /\ pc[p] = "commitTxn"
  /\ \E fault \in cfg.faults :
       LET tr == Append(trace[p], "COMMIT")
       IN IF fault
            THEN Finish(p, DriverErr, tr, committed, working, inTxn, NoRec, clone[p])
            ELSE Finish(p, 0, tr, IF inTxn THEN working ELSE committed, working, FALSE,
                        res[p], clone[p])
  /\ UNCHANGED <<nextId, lastInsertId, clock, heap, cfg, calls, obj, before, clone, where,
                  stmt, wrote, note, detail>>
  /\ UNCHANGED <<revVars, op>>

\* ------------------------------------- get, first, mget, remove, modify

\* The ids a caller asks for, and the predicates it passes to first
Ids == 1..MaxId
Predicates == {EmptyObj, [age |-> Scalar(0)], [age |-> Scalar(1)], [name |-> Scalar(1)],
               [age |-> OpMap(<< <<"gt", 1>> >>)]}

\* The caller's previous call is over
Quiet(p) ==
  /\ pc[p] \in {"idle", "have", "done"}
  /\ ~(op[p].kind = "modify" /\ op[p].callbacks = 0)

\* all: the ids of the rows the SELECT of a where object returns
all(tbl, w) == {j \in DOMAIN tbl : whereClause(w, tbl[j])}

\* build of a row read, with what its afterFetch hook does
Built(row, fx) == LET r == build(row) IN [r EXCEPT !.o = HookFx(r.o, fx)]

\* first: LIMIT 1 and objects[0].  j: the row the SELECT returns, 0 for none
first(tbl, j, fx) ==
  IF j = 0 THEN [err |-> 0, out |-> {}]
  ELSE IF fx = "err" THEN [err |-> HookErr, out |-> {}]
  ELSE [err |-> 0, out |-> {Built(tbl[j], fx)}]

FirstRows(tbl, w) == IF all(tbl, w) = {} THEN {0} ELSE all(tbl, w)

\* A get that passes an absent object on without an error
get_lenient(r) == r

\* get_: the error of first, a 404 for no object, or the object
get_(r) ==
  IF r.err # 0 THEN r
  ELSE IF r.out = {} THEN [err |-> NotFound, out |-> {}]
  ELSE r

\* get(id): first({id: Number(id)}, {limit: 1, skip: 0})
OpGet(p) ==
  /\ Quiet(p)
  /\ \E id \in Ids, fx \in cfg.fx["afterFetch"] :
       \E j \in FirstRows(working, [id |-> Scalar(id)]) :
         LET r == get_(first(working, j, fx))
         IN op' = [op EXCEPT ![p] =
                     [NoOp EXCEPT !.kind = "get", !.ids = {id}, !.err = r.err, !.out = r.out,
                                  !.val = IF r.err = 0 THEN "record" ELSE "none",
                                  !.gets = 1, !.callbacks = 1]]
  /\ UNCHANGED <<dbVars, heap, cfg, pc, calls, obj, before, clone, where, res, err, trace,
                  stmt, wrote, note, detail>>
  /\ UNCHANGED revVars

\* The predicate get makes of an object passed in place of an id: the
\* object itself.  The timestamps of a record are Dates, objects without
\* enumerable keys; its other columns hold numbers, strings or null.
queryOfObject(o) ==
  [k \in DOMAIN o |->
     IF k \in {"createdAt", "updatedAt"} /\ o[k] # NULL /\ o[k] # UNDEF
       THEN OpMap(<<>>) ELSE Scalar(o[k])]

\* get(record, callback) by a caller that holds a record: typeof idOrQuery
\* is 'object', so first(record, {limit: 1, skip: 0})
OpGetRecord(p) ==
  /\ pc[p] = "have"
  /\ Quiet(p)
  /\ \E fx \in cfg.fx["afterFetch"] :
       \E j \in FirstRows(working, queryOfObject(obj[p].o)) :
         LET r == get_(first(working, j, fx))
         IN op' = [op EXCEPT ![p] =
                     [NoOp EXCEPT !.kind = "getRecord", !.where = queryOfObject(obj[p].o),
                                  !.err = r.err, !.out = r.out,
                                  !.val = IF r.err = 0 THEN "record" ELSE "none",
                                  !.gets = 1, !.callbacks = 1]]
  /\ UNCHANGED <<dbVars, heap, cfg, pc, calls, obj, before, clone, where, res, err, trace,
                  stmt, wrote, note, detail>>
  /\ UNCHANGED revVars

\* first(properties)
OpFirst(p) ==
  /\ Quiet(p)
  /\ \E w \in Predicates, fx \in cfg.fx["afterFetch"] :
       \E j \in FirstRows(working, w) :
         LET r == first(working, j, fx)
         IN op' = [op EXCEPT ![p] =
                     [NoOp EXCEPT !.kind = "first", !.where = w, !.err = r.err, !.out = r.out,
                                  !.val = IF r.err # 0 THEN "none"
                                          ELSE IF r.out = {} THEN "undefined" ELSE "record",
                                  !.callbacks = 1]]
  /\ UNCHANGED <<dbVars, heap, cfg, pc, calls, obj, before, clone, where, res, err, trace,
                  stmt, wrote, note, detail>>
  /\ UNCHANGED revVars

\* A query for every row of the table
mgetQueryAll(ids) == EmptyObj

\* mget: the where object {id: {in: _.map(ids, Number)}}
mgetQuery(ids) == [id |-> OpMap(<< <<"in", ids>> >>)]

\* mget(ids): all(mgetQuery(ids)), every row built
OpMget(p) ==
  /\ Quiet(p)
  /\ \E ids \in SUBSET Ids, fx \in cfg.fx["afterFetch"] :
       LET rows == all(working, mgetQuery(ids))
           e == IF fx = "err" /\ rows # {} THEN HookErr ELSE 0
       IN op' = [op EXCEPT ![p] =
                   [NoOp EXCEPT !.kind = "mget", !.ids = ids, !.err = e,
                                !.out = IF e # 0 THEN {} ELSE {Built(working[j], fx) : j \in rows},
                                !.val = IF e # 0 THEN "none" ELSE "array",
                                !.callbacks = 1]]
  /\ UNCHANGED <<dbVars, heap, cfg, pc, calls, obj, before, clone, where, res, err, trace,
                  stmt, wrote, note, detail>>
  /\ UNCHANGED revVars

\* A DELETE without its WHERE
getDeleteQueryAll(row, id) == TRUE

\* dialects/postgres.js getDeleteQuery: DELETE ... WHERE id = Number(id)
getDeleteQuery(row, id) == row["id"] = id

\* remove(id): the DELETE executes; true, or a 404 when it removed no row
OpRemove(p) ==
  /\ Quiet(p)
  /\ \E id \in Ids, fault \in cfg.faults :
       LET hit == IF fault THEN {}
                  ELSE {j \in DOMAIN working : getDeleteQuery(working[j], id)}
           tbl == [j \in (DOMAIN working) \ hit |-> working[j]]
           e == IF fault THEN DriverErr ELSE IF hit = {} THEN NotFound ELSE 0
       IN /\ working' = tbl
          /\ committed' = IF inTxn THEN committed ELSE tbl
          /\ op' = [op EXCEPT ![p] =
                      [NoOp EXCEPT !.kind = "remove", !.ids = {id}, !.err = e,
                                   !.val = IF e = 0 THEN "true" ELSE "none",
                                   !.callbacks = 1]]
  /\ UNCHANGED <<inTxn, nextId, lastInsertId, clock, heap, cfg, pc, calls, obj, before, clone,
                  where, res, err, trace, stmt, wrote, note, detail>>
  /\ UNCHANGED revVars

\* modifySave_ of the earlier revision: a 409 starts another cycle
modifySaveRetry_(e) == IF e = Conflict THEN "retry" ELSE "callback"

\* modifySave_: the error of save, or the saved record, goes to the callback
modifySave_(e) == "callback"

\* modify(id, where, mutator, callback): get, then mutator and save
Modify(p) ==
  /\ Quiet(p) \/ pc[p] = "retry"
  /\ calls[p] < cfg.maxCalls
  /\ \E id \in Ids, fx \in cfg.fx["afterFetch"], wk \in cfg.wheres, mu \in cfg.mutations :
       \E j \in FirstRows(working, [id |-> Scalar(id)]) :
         LET o == IF pc[p] = "retry" THEN op[p] ELSE [NoOp EXCEPT !.kind = "modify", !.ids = {id}]
             r == get_(first(working, j, fx))
             rec == CHOOSE x \in r.out : TRUE
             w == IF pc[p] = "retry" THEN o.where ELSE WhereOf(wk, rec.o)
         IN /\ id \in o.ids
            /\ IF r.err # 0
                 THEN /\ op' = [op EXCEPT ![p] =
                                  [o EXCEPT !.gets = @ + 1, !.err = r.err, !.callbacks = @ + 1]]
                      /\ pc' = [pc EXCEPT ![p] = IF @ = "retry" THEN "done" ELSE @]
                      /\ UNCHANGED <<dbVars, heap, cfg, calls, obj, before, clone, where, res,
                                      err, trace, stmt, wrote, note, detail>>
                      /\ UNCHANGED revVars
                 ELSE /\ op' = [op EXCEPT ![p] =
                                  [o EXCEPT !.gets = @ + 1, !.mutators = @ + 1, !.saves = @ + 1,
                                            !.where = w]]
                      /\ StartSave(p, [rec EXCEPT !.o = Mutate(@, mu)], w, mu # "none")

\* The callback modify passes to save
ModifySaved(p) ==
  /\ pc[p] = "done"
  /\ op[p].kind = "modify" /\ op[p].callbacks = 0
  /\ IF modifySave_(err[p]) = "retry"
       THEN /\ pc' = [pc EXCEPT ![p] = "retry"]
            /\ UNCHANGED op
       ELSE /\ op' = [op EXCEPT ![p] =
                        [@ EXCEPT !.err = err[p], !.callbacks = @ + 1,
                                  !.out = IF err[p] = 0 THEN {res[p]} ELSE {},
                                  !.val = IF err[p] = 0 THEN "record" ELSE "none"]]
            /\ UNCHANGED pc
  /\ UNCHANGED <<dbVars, heap, cfg, calls, obj, before, clone, where, res, err, trace,
                  stmt, wrote, note, detail>>
  /\ UNCHANGED revVars

\* ------------------------------------------- the revision variant of save

\* The earlier revision of the module guards an update by the record's
\* revision instead of a where object, and uses no transaction.  Its table
\* is modelled by the columns id, age and revision.
RevRow1 == [id |-> 1, age |-> 0, revision |-> 1]

NoQuery == [id |-> 0, cur |-> 0, cols |-> EmptyObj]

\* An UPDATE guarded by the id alone
RevMatchesIdOnly(row, id, cur) == row["id"] = id

\* WHERE table.id = $id AND table.revision = $currentRevision
RevMatches(row, id, cur) == row["id"] = id /\ row["revision"] = cur

\* get(id): SELECT and build
RevGet(p) ==
  /\ revPc[p] \in {"idle", "done"}
  /\ \E id \in DOMAIN revTable :
       revObj' = [revObj EXCEPT ![p] = revTable[id]]
  /\ revPc' = [revPc EXCEPT ![p] = "have"]
  /\ UNCHANGED <<revTable, revQuery, revErr, revCalls>>
  /\ UNCHANGED <<mainVars, rmod, vcheck, qVars, xVars>>

\* The caller changes the age of its record and calls save: validation,
\* then saveUpdate up to the query it sends.
RevSave(p) ==
  /\ revPc[p] = "have"
  /\ revCalls[p] < MaxCalls
  /\ LET o == Put(revObj[p], "age", Prop(revObj[p], "age") + 1)
         id == Prop(o, "id")
         currentRevision == Prop(o, "revision")
         o2 == Put(Del(o, "id"), "revision", currentRevision + 1)
     IN /\ revObj' = [revObj EXCEPT ![p] = o]
        /\ IF validate(o) # {}
             THEN /\ revErr' = [revErr EXCEPT ![p] = Forbidden]
                  /\ revPc' = [revPc EXCEPT ![p] = "done"]
                  /\ UNCHANGED revQuery
             ELSE /\ revQuery' = [revQuery EXCEPT ![p] =
                                    [id |-> id, cur |-> currentRevision, cols |-> o2]]
                  /\ revErr' = [revErr EXCEPT ![p] = 0]
                  /\ revPc' = [revPc EXCEPT ![p] = "updating"]
  /\ revCalls' = [revCalls EXCEPT ![p] = @ + 1]
  /\ UNCHANGED revTable
  /\ UNCHANGED <<mainVars, rmod, vcheck, qVars, xVars>>

\* The UPDATE executes and saveUpdate_ delivers the built row or a 409
RevUpdate(p) ==
  /\ revPc[p] = "updating"
  /\ LET q == revQuery[p]
         hit == {j \in DOMAIN revTable : RevMatches(revTable[j], q.id, q.cur)}
     IN /\ \A j \in hit : revTable[j]["revision"] < MaxRev
        /\ revTable' = [j \in DOMAIN revTable |->
                          IF j \in hit THEN Merge(revTable[j], q.cols) ELSE revTable[j]]
        /\ revErr' = [revErr EXCEPT ![p] = IF hit = {} THEN Conflict ELSE 0]
        /\ revObj' = [revObj EXCEPT ![p] =
                        IF hit = {} THEN @ ELSE revTable'[CHOOSE j \in hit : TRUE]]
  /\ revPc' = [revPc EXCEPT ![p] = "done"]
  /\ UNCHANGED <<revQuery, revCalls>>
  /\ UNCHANGED <<mainVars, rmod, vcheck, qVars, xVars>>

\* The caller goes on with the record it holds
RevAgain(p) ==
  /\ revPc[p] = "done"
  /\ revCalls[p] < MaxCalls
  /\ revPc' = [revPc EXCEPT ![p] = "have"]
  /\ UNCHANGED <<revTable, revObj, revQuery, revErr, revCalls>>
  /\ UNCHANGED <<mainVars, rmod, vcheck, qVars, xVars>>

\* ------------------------------------- modify of the revision variant

\* The state of a modify call: its options, the number of the current try,
\* what it has done so far and what it passed to its callback
NoModify == [phase |-> "idle", id |-> 0, max |-> UNDEF, ens |-> "none", mu |-> "none",
             try |-> 0, gets |-> 0, mutators |-> 0, saves |-> 0, conflicts |-> 0,
             callbacks |-> 0, err |-> 0, ensureFailed |-> FALSE, exhausted |-> FALSE]

\* The options and ids modify is called with: maxRetries absent, 1 or 2;
\* no ensure, or an ensure on the age of the record
MaxRetriesOpts == {UNDEF, 1, 2}
EnsureOpts == {"none", "young"}
RetryIds == {1, 2}

\* opts.maxRetries || 3
maxRetries(max) == IF Truthy(max) THEN max ELSE 3

\* _.every(opts.ensures, ensureFn(obj))
ensuresPass(ens, o) == IF ens = "young" THEN Prop(o, "age") < 1 ELSE TRUE

\* attemptModify without the check of the try number
attemptModifyUnbounded(m, tryNumber) == [m EXCEPT !.phase = "get", !.try = tryNumber]

\* attemptModify up to the query of get: above maxRetries the callback gets
\* the error of exhaustion
attemptModify(m, tryNumber) ==
  IF tryNumber > maxRetries(m.max)
    THEN [m EXCEPT !.phase = "done", !.try = tryNumber, !.err = ServiceUnavailable,
                   !.callbacks = @ + 1, !.exhausted = TRUE]
    ELSE [m EXCEPT !.phase = "get", !.try = tryNumber]

\* modify(id, opts, mutator, callback): attemptModify(1)
RetryModify(p) ==
  /\ rmod[p].phase = "idle"
  /\ \E id \in RetryIds, max \in MaxRetriesOpts, ens \in EnsureOpts, mu \in {"age", "unsetAge"} :
       rmod' = [rmod EXCEPT ![p] =
                  attemptModify([NoModify EXCEPT !.id = id, !.max = max, !.ens = ens, !.mu = mu], 1)]
  /\ UNCHANGED <<revTable, revObj, revQuery, revErr, revCalls, revPc>>
  /\ UNCHANGED <<mainVars, vcheck, qVars, xVars>>

\* modifyGet_: the row of get, the ensures, the mutator, and save up to the
\* UPDATE it sends
ModifyGet_(p) ==
  /\ rmod[p].phase = "get"
  /\ LET m == [rmod[p] EXCEPT !.gets = @ + 1]
         found == m.id \in DOMAIN revTable
         row == revTable[m.id]
         o == Mutate(row, m.mu)
         currentRevision == Prop(o, "revision")
         o2 == Put(Del(o, "id"), "revision", currentRevision + 1)
         done(e) == [m EXCEPT !.phase = "done", !.err = e, !.callbacks = @ + 1]
     IN IF ~found
          THEN /\ rmod' = [rmod EXCEPT ![p] = done(NotFound)]
               /\ UNCHANGED <<revObj, revQuery>>
        ELSE IF ~ensuresPass(m.ens, row)
          THEN /\ rmod' = [rmod EXCEPT ![p] = [done(Conflict) EXCEPT !.ensureFailed = TRUE]]
               /\ UNCHANGED <<revObj, revQuery>>
        ELSE IF validate(o) # {}
          THEN /\ rmod' = [rmod EXCEPT ![p] =
                             [done(Forbidden) EXCEPT !.mutators = @ + 1, !.saves = @ + 1]]
               /\ revObj' = [revObj EXCEPT ![p] = o]
               /\ UNCHANGED revQuery
        ELSE /\ rmod' = [rmod EXCEPT ![p] =
                           [m EXCEPT !.phase = "saving", !.mutators = @ + 1, !.saves = @ + 1]]
             /\ revObj' = [revObj EXCEPT ![p] = o]
             /\ revQuery' = [revQuery EXCEPT ![p] =
                               [id |-> m.id, cur |-> currentRevision, cols |-> o2]]
  /\ UNCHANGED <<revTable, revErr, revCalls, revPc>>
  /\ UNCHANGED <<mainVars, vcheck, qVars, xVars>>

\* The UPDATE executes; modifySave_ starts another try on a 409
ModifyUpdate(p) ==
  /\ rmod[p].phase = "saving"
  /\ LET q == revQuery[p]
         hit == {j \in DOMAIN revTable : RevMatches(revTable[j], q.id, q.cur)}
     IN /\ revTable' = [j \in DOMAIN revTable |->
                          IF j \in hit THEN Merge(revTable[j], q.cols) ELSE revTable[j]]
        /\ IF hit = {}
             THEN /\ rmod' = [rmod EXCEPT ![p] =
                                attemptModify([@ EXCEPT !.conflicts = @ + 1], @.try + 1)]
                  /\ UNCHANGED revObj
             ELSE /\ rmod' = [rmod EXCEPT ![p] =
                                [@ EXCEPT !.phase = "done", !.err = 0, !.callbacks = @ + 1]]
                  /\ revObj' = [revObj EXCEPT ![p] = revTable'[CHOOSE j \in hit : TRUE]]
  /\ UNCHANGED <<revQuery, revErr, revCalls, revPc>>
  /\ UNCHANGED <<mainVars, vcheck, qVars, xVars>>

\* Another client saves a change of a row
OtherWrite ==
  /\ \E id \in DOMAIN revTable :
       /\ revTable[id]["revision"] < MaxRev
       /\ revTable' = [revTable EXCEPT ![id] =
                         [@ EXCEPT !["revision"] = @ + 1, !["age"] = @ + 1]]
  /\ UNCHANGED <<revObj, revQuery, revErr, revCalls, revPc, rmod>>
  /\ UNCHANGED <<mainVars, vcheck, qVars, xVars>>

\* Another client removes a row
OtherRemove ==
  /\ \E id \in DOMAIN revTable :
       revTable' = [j \in (DOMAIN revTable) \ {id} |-> revTable[j]]
  /\ UNCHANGED <<revObj, revQuery, revErr, revCalls, revPc, rmod>>
  /\ UNCHANGED <<mainVars, vcheck, qVars, xVars>>

\* ------------------------------------------------- validate, by itself

NoCheck == [phase |-> "idle", vs |-> <<>>, o |-> EmptyObj, errors |-> <<>>]

\* The rule lists a descriptor declares for a column, the descriptors
\* (validations of age, or of age and name in either order), and the
\* objects validated
RuleLists == {<<"isInt", "notNull">>, <<"notNull", "isInt">>, <<"notNull">>, <<"isInt">>}
Descriptors ==
  {<< [key |-> "age", rules |-> r] >> : r \in RuleLists}
  \cup {<< [key |-> "age", rules |-> r], [key |-> "name", rules |-> q] >> :
          r \in RuleLists, q \in RuleLists}
  \cup {<< [key |-> "name", rules |-> q], [key |-> "age", rules |-> r] >> :
          r \in RuleLists, q \in RuleLists}
Validated ==
  {[age |-> a, name |-> n] : a \in {UNDEF, NULL, EMPTYSTR, 0, 1, ObjRef(1)},
                              n \in {UNDEF, NULL, 1}}

\* validate is called with a descriptor and an object
ValidateCall ==
  /\ vcheck.phase = "idle"
  /\ \E vs \in Descriptors, o \in Validated :
       vcheck' = [phase |-> "called", vs |-> vs, o |-> o, errors |-> <<>>]
  /\ UNCHANGED <<mainVars, revTable, revObj, revQuery, revErr, revCalls, revPc, rmod, qVars, xVars>>

\* validate runs the rules and collects err.validationErrors
ValidateRun ==
  /\ vcheck.phase = "called"
  /\ vcheck' = [vcheck EXCEPT !.phase = "done",
                               !.errors = validationErrors(vcheck.vs, vcheck.o)]
  /\ UNCHANGED <<mainVars, revTable, revObj, revQuery, revErr, revCalls, revPc, rmod, qVars, xVars>>

\* ------------------------------------------------------ all with options

\* opts of all: select (an array of column names, or absent), limit, offset
\* and order (the <<column, direction>> pairs of the map in the iteration
\* order of its keys)
NoSelect == [given |-> FALSE, cols |-> {}]
Select(cols) == [given |-> TRUE, cols |-> cols]
Opts(sel, lim, off, ord) == [select |-> sel, limit |-> lim, offset |-> off, order |-> ord]
NoOpts == Opts(NoSelect, UNDEF, UNDEF, <<>>)

\* selectClause: table.* when no columns are given, else the sources of the
\* columns named
selectClause(row, sel) ==
  IF ~sel.given THEN row
  ELSE [s \in {toUnderscore(c) : c \in sel.cols} |-> row[s]]

\* orderClause, ORDER BY: row a may come before row b
RECURSIVE orderClause(_, _, _, _)
orderClause(a, b, order, i) ==
  IF i > Len(order) THEN TRUE
  ELSE LET s == toUnderscore(order[i][1])
       IN IF a[s] = b[s] THEN orderClause(a, b, order, i + 1)
          ELSE IF order[i][2] = "asc" THEN a[s] < b[s] ELSE a[s] > b[s]

\* The orders in which the database may return the rows of a SELECT: any
\* order that agrees with ORDER BY
QueryOrders(tbl, ids, order) ==
  {f \in [1..Cardinality(ids) -> ids] :
     /\ \A i, j \in DOMAIN f : i # j => f[i] # f[j]
     /\ \A i, j \in DOMAIN f : i < j => orderClause(tbl[f[i]], tbl[f[j]], order, 1)}

\* if (opts.limit) sql.limit(opts.limit); if (opts.offset) sql.offset(..):
\* the clause the query carries, UNDEF for none
limitClause(v) == IF Truthy(v) THEN v ELSE UNDEF

\* LIMIT lim OFFSET off over the rows in query order
Page(f, lim, off) ==
  LET k == IF off = UNDEF THEN 0 ELSE off
      n == IF lim = UNDEF THEN Len(f) ELSE lim
      last == IF k + n < Len(f) THEN k + n ELSE Len(f)
  IN SubSeq(f, k + 1, last)

\* A call of all or of get with a query object.  tbl: the table it read;
\* full: the ids of the rows of the SELECT without LIMIT and OFFSET, in the
\* order the database returns them; ids, rows: what the query returned.
NoAll == [kind |-> "none", phase |-> "idle", pred |-> EmptyObj, opts |-> NoOpts,
          tbl |-> EmptyObj, full |-> <<>>, ids |-> <<>>, rows |-> <<>>, err |-> 0]

Answer(kind, w, opts, tbl, f, e) ==
  LET ids == Page(f, limitClause(opts.limit), limitClause(opts.offset))
  IN [kind |-> kind, phase |-> "done", pred |-> w, opts |-> opts, tbl |-> tbl,
      full |-> f, ids |-> ids,
      rows |-> [i \in 1..Len(ids) |-> build(selectClause(tbl[ids[i]], opts.select))],
      err |-> IF ids = <<>> THEN e ELSE 0]

\* all(properties, opts, callback): SELECT, WHERE, ORDER BY, LIMIT, OFFSET,
\* then build of every row.  Q: the predicates and options a caller passes.
\* The caller makes one query, while it holds no record.
All(p, Q) ==
  /\ pc[p] = "idle" /\ qry.phase = "idle"
  /\ \E w \in Q.preds, sel \in Q.selects, lim \in Q.limits, off \in Q.offsets,
        ord \in Q.orders :
       \E f \in QueryOrders(working, all(working, w), ord) :
         qry' = Answer("all", w, Opts(sel, lim, off, ord), working, f, 0)
  /\ UNCHANGED <<mainVars, revTable, revObj, revQuery, revErr, revCalls, revPc, rmod, vcheck, xVars>>

\* get(query object, callback): first(query, {limit: 1, skip: 0}), which is
\* all with limit 1 and objects[0]; a 404 when there is no object
GetBy(p, Q) ==
  /\ pc[p] = "idle" /\ qry.phase = "idle"
  /\ \E w \in Q.preds :
       \E f \in QueryOrders(working, all(working, w), <<>>) :
         qry' = Answer("get", w, Opts(NoSelect, 1, UNDEF, <<>>), working, f, NotFound)
  /\ UNCHANGED <<mainVars, revTable, revObj, revQuery, revErr, revCalls, revPc, rmod, vcheck, xVars>>

\* The caller goes on with one of the records delivered
Take(p) ==
  /\ pc[p] = "idle"
  /\ qry.phase = "done"
  /\ \E i \in 1..Len(qry.rows) : obj' = [obj EXCEPT ![p] = qry.rows[i]]
  /\ note' = [note EXCEPT ![p] = [fetched |-> TRUE, mutated |-> FALSE]]
  /\ pc' = [pc EXCEPT ![p] = "have"]
  /\ UNCHANGED <<dbVars, heap, cfg, calls, before, clone, where, res, err, trace, stmt, wrote,
                  detail, op>>
  /\ UNCHANGED revVars

\* The caller goes on with the record get delivered
TakeGot(p) == qry.kind = "get" /\ Take(p)

\* ------------------------------------------- descriptors and conversions

\* The names a descriptor may give its columns and their sources, a key
\* that is neither, and the values of a row (0 and null are falsy)
Keys == {"a", "b", "c"}
NoColumnKey == "z"
RowValues == {0, NULL, 1, 2}

\* A column as standardizeColumns leaves it

\* model.columns: up to MaxColumns columns with distinct names and distinct
\* sources
ColumnLists ==
  {d \in UNION {[1..n -> [name : Keys, source : Keys]] : n \in 1..MaxColumns} :
     \A i, j \in DOMAIN d : i # j => (d[i].name # d[j].name /\ d[i].source # d[j].source)}

\* Rows: values under some of the keys
SourceRows == UNION {[ks -> RowValues] : ks \in SUBSET (Keys \cup {NoColumnKey})}

ColumnNamed(D, n) == D[CHOOSE i \in DOMAIN D : D[i].name = n]
ColumnOfSource(D, s) == D[CHOOSE i \in DOMAIN D : D[i].source = s]

\* pruneToColumns(model, obj): each column found in obj under its name, or
\* else under its source, becomes a property of its name
pruneToColumnsOf(D, o) ==
  [n \in {D[i].name : i \in {j \in DOMAIN D : D[j].name \in DOMAIN o \/ D[j].source \in DOMAIN o}} |->
     IF n \in DOMAIN o THEN o[n] ELSE o[ColumnNamed(D, n).source]]

\* columnsToSource(model, obj): each column found in obj under its name
\* becomes a property of its source
columnsToSourceOf(D, o) ==
  [s \in {D[i].source : i \in {j \in DOMAIN D : D[j].name \in DOMAIN o}} |->
     o[ColumnOfSource(D, s).name]]

NoConv == [columns |-> <<>>, row |-> EmptyObj, step |-> 0, record |-> EmptyObj,
           source |-> EmptyObj, again |-> EmptyObj]

\* build reads the row of the database
FromSource ==
  /\ conv.step = 0
  /\ conv' = [conv EXCEPT !.step = 1, !.record = pruneToColumnsOf(conv.columns, conv.row)]
  /\ UNCHANGED <<oldVars, convFrame>>

\* saveNew / saveUpdate turn the record into the columns of a statement
ToSource ==
  /\ conv.step = 1
  /\ conv' = [conv EXCEPT !.step = 2, !.source = columnsToSourceOf(conv.columns, conv.record)]
  /\ UNCHANGED <<oldVars, convFrame>>

\* build reads the row the statement returned
FromSourceAgain ==
  /\ conv.step = 2
  /\ conv' = [conv EXCEPT !.step = 3, !.again = pruneToColumnsOf(conv.columns, conv.source)]
  /\ UNCHANGED <<oldVars, convFrame>>

\* ------------------------------------------------------------ hook lists

\* What an element of a hook list is: a callback that signals completion, a
\* callback that signals an error, or something that is no function
HookElements == {"ok", "err", "notFunction"}
HookLists == UNION {[1..n -> HookElements] : n \in 0..MaxHooks}

\* The hooks save runs before the write
ListHooks == {"beforeValidation", "afterValidation", "beforeSave"}

\* An event of the run: a step of the pipeline, or the start or the end of
\* callback k with the marks it found on the record
Event(ev, k, seen) == [ev |-> ev, k |-> k, seen |-> seen]

NoHookRun ==
  [hook |-> "none", list |-> <<>>, pc |-> "idle", running |-> 0, record |-> <<>>,
   log |-> <<>>, err |-> 0, callbacks |-> 0]

\* _.filter(hook, _.isFunction): the positions of the functions of the list
fnsOf(list) == {i \in DOMAIN list : list[i] # "notFunction"}

\* A series that goes on with the last task
lastTask(fns, k) ==
  IF {i \in fns : i > k} = {} THEN 0 ELSE CHOOSE i \in fns : \A j \in fns : j <= i

\* async.series: the task that follows task k (0: none)
nextTask(fns, k) ==
  IF {i \in fns : i > k} = {} THEN 0
  ELSE CHOOSE i \in fns : i > k /\ \A j \in fns : j > k => i <= j

\* The tasks of save's series around the hooks before the write
HookSeriesNext(step) ==
  CASE step = "beginTxn" -> "beforeValidation"
    [] step = "beforeValidation" -> "validation"
    [] step = "validation" -> "afterValidation"
    [] step = "afterValidation" -> "beforeSave"
    [] step = "beforeSave" -> "saved"
    [] step = "saved" -> "commitTxn"
    [] OTHER -> "done"

\* The series of save enters a task: a query, validate, or runHook, which
\* for a list starts the first function of the list with the record and
\* for no hook calls back at once
EnterTask(h, step) ==
  IF step = "done"
    THEN [h EXCEPT !.pc = "done", !.callbacks = @ + 1,
                   !.log = Append(@, Event("callback", 0, <<>>))]
  ELSE IF step = h.hook /\ nextTask(fnsOf(h.list), 0) # 0
    THEN [h EXCEPT !.pc = step, !.running = nextTask(fnsOf(h.list), 0),
                   !.log = Append(Append(@, Event(step, 0, <<>>)),
                                  Event("start", nextTask(fnsOf(h.list), 0), h.record))]
  ELSE [h EXCEPT !.pc = step, !.log = Append(@, Event(step, 0, <<>>))]

\* save(obj, callback) on the model
HookSave ==
  /\ hk.pc = "idle"
  /\ hk' = EnterTask(hk, "beginTxn")
  /\ UNCHANGED <<oldVars, hkFrame>>

\* A task that is no running list completes: the series enters the next
HookTaskDone ==
  /\ hk.pc \notin {"idle", "done"}
  /\ hk.running = 0
  /\ hk' = EnterTask(hk, HookSeriesNext(hk.pc))
  /\ UNCHANGED <<oldVars, hkFrame>>

\* The running callback of the list marks the record and signals: with an
\* error the series of the hook and the series of save end, ROLLBACK is
\* sent and the error is passed to the callback of save; else the next
\* function of the list starts, or the series of save goes on
HookSignals ==
  /\ hk.running # 0
  /\ LET k == hk.running
         rec == Append(hk.record, k)
         ended == [hk EXCEPT !.record = rec, !.running = 0,
                             !.log = Append(@, Event("end", k, rec))]
         nxt == nextTask(fnsOf(hk.list), k)
     IN hk' = IF hk.list[k] = "err"
                THEN [ended EXCEPT !.pc = "done", !.err = HookErr, !.callbacks = @ + 1,
                                   !.log = Append(Append(@, Event("ROLLBACK", 0, <<>>)),
                                                  Event("callback", 0, <<>>))]
              ELSE IF nxt # 0
                THEN [ended EXCEPT !.running = nxt,
                                   !.log = Append(@, Event("start", nxt, rec))]
              ELSE EnterTask(ended, HookSeriesNext(hk.pc))
  /\ UNCHANGED <<oldVars, hkFrame>>

\* ------------------------------------------- include: sibling branches

\* The branches of an array spec on User: 'posts', 'comments' and
\* {posts: 'comments'}
Branches == {"posts", "comments", "postsComments"}

\* A query in flight: the branch that sent it and its level (1: the
\* relation of the user, 2: the comments of the posts of the branch)
InFlight(branch, level) == [branch |-> branch, level |-> level]

\* posts: the branch whose answer user.posts holds (0: not attached);
\* carried: the branches whose post objects had comments attached
NoSiblings ==
  [spec |-> <<>>, nposts |-> 0, poolMax |-> 1, pc |-> "idle", queue |-> <<>>, posts |-> 0,
   comments |-> FALSE, carried |-> {}, pending |-> 0, callbacks |-> 0]

\* include(User, user, [.., ..], callback): async.each calls include for
\* every branch; each sends the query of its relation at once
IncludeArray ==
  /\ sib.pc = "idle"
  /\ sib' = [sib EXCEPT !.pc = "waiting", !.pending = Len(sib.spec),
                         !.queue = [i \in 1..Len(sib.spec) |-> InFlight(i, 1)]]
  /\ UNCHANGED <<oldVars, sibFrame>>

\* The queries the pool may answer next: the oldest on its one connection,
\* any of them when it has more connections
Answerable(s) == IF s.poolMax = 1 THEN {1} \cap DOMAIN s.queue ELSE DOMAIN s.queue

Without(q, i) == [j \in 1..(Len(q) - 1) |-> IF j < i THEN q[j] ELSE q[j + 1]]

\* A branch has called back: async.each calls back after the last one
BranchDone(s) ==
  IF s.pending = 1 THEN [s EXCEPT !.pending = 0, !.pc = "done", !.callbacks = @ + 1]
  ELSE [s EXCEPT !.pending = @ - 1]

\* The callback of associatedModel.all of a branch: the records are
\* attached to the user (r[inc] = associated), or the comments to the post
\* objects of the branch; {posts: 'comments'} then includes the comments of
\* the posts it received, which calls back at once for no posts
SiblingAnswers ==
  /\ sib.pc = "waiting"
  /\ \E i \in Answerable(sib) :
       LET q == sib.queue[i]
           b == sib.spec[q.branch]
           rest == [sib EXCEPT !.queue = Without(sib.queue, i)]
       IN sib' = IF q.level = 2
                   THEN BranchDone([rest EXCEPT !.carried = @ \cup {q.branch}])
                 ELSE IF b = "comments"
                   THEN BranchDone([rest EXCEPT !.comments = TRUE])
                 ELSE IF b = "posts" \/ sib.nposts = 0
                   THEN BranchDone([rest EXCEPT !.posts = q.branch])
                 ELSE [rest EXCEPT !.posts = q.branch,
                                   !.queue = Append(@, InFlight(q.branch, 2))]
  /\ UNCHANGED <<oldVars, sibFrame>>

\* ------------------------------------------- operations and callbacks

\* The public operations, and what a call may pass: an id or a predicate
\* and options the model knows; an object in place of the id; opts.select
\* or opts.order naming a column the model does not define; an inclusion
\* spec naming a relation it does not define; a record of a model whose
\* validations name a validator node-validator does not have
Operations == {"get", "mget", "first", "all", "save", "remove", "modify", "query", "include"}
Selecting == {"get", "mget", "first", "all"}

InputsOf(o) ==
  IF o = "get" THEN {"plain", "object", "unknownSelect", "unknownOrder", "unknownRelation"}
  ELSE IF o \in Selecting THEN {"plain", "unknownSelect", "unknownOrder", "unknownRelation"}
  ELSE IF o \in {"save", "modify"} THEN {"plain", "unknownValidator"}
  ELSE IF o = "include" THEN {"plain", "unknownRelation"}
  ELSE {"plain"}

\* A call: the operation, its input, the number of rows its SELECT finds
\* (for include: of records passed), the query it waits for, the exception
\* it threw, and what its callback received
NoCallback ==
  [op |-> "none", input |-> "plain", rows |-> 0, pc |-> "idle", thrown |-> "none",
   callbacks |-> 0, err |-> 0, result |-> FALSE, queries |-> 0]

CalledBack(c, e, withResult) ==
  [c EXCEPT !.pc = "done", !.callbacks = @ + 1, !.err = e, !.result = withResult]

Thrown(c, what, where_) == [c EXCEPT !.pc = where_, !.thrown = what]

Waits(c, for) == [c EXCEPT !.pc = for, !.queries = @ + 1]

\* The operation up to its first query.  all: selectClause asserts that a
\* selected column is defined and orderClause reads a property of
\* table[undefined] for an undefined one; include: nothing to do for no
\* records, relationByName asserts that the relation is defined; save:
\* BEGIN; modify: get; remove and query: their statement
OperationCalled(c) ==
  IF c.op \in Selecting
    THEN IF c.input = "unknownSelect" THEN Thrown(c, "AssertionError", "thrown")
         ELSE IF c.input = "unknownOrder" THEN Thrown(c, "TypeError", "thrown")
         ELSE Waits(c, "selecting")
  ELSE IF c.op = "include"
    THEN IF c.rows = 0 THEN CalledBack(c, 0, FALSE)
         ELSE IF c.input = "unknownRelation" THEN Thrown(c, "AssertionError", "thrown")
         ELSE Waits(c, "including")
  ELSE IF c.op = "save" THEN Waits(c, "beginTxn")
  ELSE IF c.op = "modify" THEN Waits(c, "selecting")
  ELSE IF c.op = "remove" THEN Waits(c, "deleting")
  ELSE Waits(c, "querying")

\* The callback of the query the call waits for, with the driver's error or
\* its rows.  all_: the rows are built and, with opts.include, included,
\* where relationByName asserts inside the driver's callback; get_: a 404
\* for no object.  save: after BEGIN the hooks and validate, where
\* v.check(value)[validation]() of an unknown validator is a TypeError, then
\* the statement, then COMMIT.
QueryAnswered(c, fault) ==
  IF fault THEN CalledBack(c, DriverErr, FALSE)
  ELSE IF c.pc = "selecting"
    THEN IF c.input = "unknownRelation" /\ c.rows > 0
           THEN Thrown(c, "AssertionError", "uncaught")
         ELSE IF c.op \in {"get", "modify"} /\ c.rows = 0 THEN CalledBack(c, NotFound, FALSE)
         ELSE IF c.op = "modify" THEN Waits(c, "beginTxn")
         ELSE CalledBack(c, 0, TRUE)
  ELSE IF c.pc = "beginTxn"
    THEN IF c.input = "unknownValidator" THEN Thrown(c, "TypeError", "uncaught")
         ELSE Waits(c, "saved")
  ELSE IF c.pc = "saved" THEN Waits(c, "commitTxn")
  ELSE CalledBack(c, 0, TRUE)

\* A public operation is called with a callback
CallOperation ==
  /\ cbk.pc = "idle"
  /\ cbk' = OperationCalled(cbk)
  /\ UNCHANGED <<oldVars, cbkFrame>>

\* The driver answers the query in flight
DriverCallsBack ==
  /\ cbk.pc \in {"selecting", "including", "beginTxn", "saved", "commitTxn", "deleting",
                  "querying"}
  /\ \E fault \in BOOLEAN : cbk' = QueryAnswered(cbk, fault)
  /\ UNCHANGED <<oldVars, cbkFrame>>

\* ------------------------------------------------------ sqlbox.js: clients

\* The names clients are registered under and the drivers of their dbURL
ClientNames == {"default", "other"}
Drivers == {"postgres", "mysql"}

\* The code of the BoxError of the client getter
NoClient == 500

\* A pool of connections: the id tells the pools of two createClient calls
\* apart.  NoPool: no client registered.
Pool(id, driver) == [id |-> id, driver |-> driver]
NoPool == Pool(0, "none")

\* A query sent: its text, the pool it went to and the dialect that built
\* it ("none" for BEGIN and COMMIT, which no dialect builds)
QuerySent(text, pool, d) == [text |-> text, pool |-> pool, dialect |-> d]

\* A call on a model: the client name of the model, the client registered
\* under it when the call was made, the client save binds BEGIN and COMMIT
\* to, the queries sent, the exception thrown and the callbacks made
NoCall ==
  [pc |-> "idle", kind |-> "none", name |-> "default", atCall |-> NoPool, bound |-> NoPool,
   sent |-> <<>>, thrown |-> "none", code |-> 0, callbacks |-> 0]

NoBox ==
  [clients |-> [n \in ClientNames |-> NoPool], dialect |-> "none", pools |-> 0,
   call |-> NoCall]

\* methods.setDialect(driver): the dialect of all models
setDialect(driver) == driver

\* createClient(name, options): sets the dialect of node-sql and of the
\* model methods, creates a pool and stores it under the name
createClient(name, driver) ==
  /\ box.pools < MaxPools
  /\ box' = [box EXCEPT !.dialect = setDialect(driver),
                         !.pools = @ + 1,
                         !.clients[name] = Pool(box.pools + 1, driver)]
  /\ UNCHANGED <<oldVars, boxFrame>>

\* removeClient(name): closes and deletes the client, if there is one
removeClient(name) ==
  /\ box.clients[name] # NoPool
  /\ box' = [box EXCEPT !.clients[name] = NoPool]
  /\ UNCHANGED <<oldVars, boxFrame>>

\* The getter of model.client: the client registered now, or a BoxError(500)
client(b, name) == b.clients[name]

Throws(c, what, code) == [c EXCEPT !.pc = "thrown", !.thrown = what, !.code = code]

NewCall(kind, name) ==
  [NoCall EXCEPT !.kind = kind, !.name = name, !.atCall = client(box, name)]

CanCall == box.call.pc \in {"idle", "done", "thrown"}

\* remove(id, callback): dialect.getDeleteQuery, then model.client.query
ModelRemove(name) ==
  /\ CanCall
  /\ LET c == NewCall("remove", name)
         pool == client(box, name)
     IN box' = [box EXCEPT !.call =
                  IF box.dialect = "none" THEN Throws(c, "TypeError", UNDEF)
                  ELSE IF pool = NoPool THEN Throws(c, "BoxError", NoClient)
                  ELSE [c EXCEPT !.pc = "removing",
                                 !.sent = << QuerySent("DELETE", pool, box.dialect) >>]]
  /\ UNCHANGED <<oldVars, boxFrame>>

\* get(id, callback): all builds the SELECT with node-sql, whose dialect
\* createClient sets too, then model.client.query
ModelGet(name) ==
  /\ CanCall
  /\ LET c == NewCall("get", name)
         pool == client(box, name)
     IN box' = [box EXCEPT !.call =
                  IF pool = NoPool THEN Throws(c, "BoxError", NoClient)
                  ELSE [c EXCEPT !.pc = "getting",
                                 !.sent = << QuerySent("SELECT", pool, box.dialect) >>]]
  /\ UNCHANGED <<oldVars, boxFrame>>

\* save(obj, callback) up to the first task of async.series: BEGIN and
\* COMMIT are bound to model.client when the tasks are built
ModelSave(name) ==
  /\ CanCall
  /\ LET c == NewCall("save", name)
         pool == client(box, name)
     IN box' = [box EXCEPT !.call =
                  IF pool = NoPool THEN Throws(c, "BoxError", NoClient)
                  ELSE [c EXCEPT !.pc = "beginTxn", !.bound = pool,
                                 !.sent = << QuerySent("BEGIN", pool, "none") >>]]
  /\ UNCHANGED <<oldVars, boxFrame>>

\* The driver answers the query in flight and the call goes on: the
\* callback of remove and get; for save, saveNew (dialect.getSaveQuery, then
\* model.client.query, whose getter throws inside the driver's callback
\* when the client is gone), then COMMIT on the bound client, then the
\* callback
DriverAnswers ==
  /\ box.call.pc \in {"removing", "getting", "beginTxn", "saved", "commitTxn"}
  /\ LET c == box.call
         pool == client(box, c.name)
     IN box' = [box EXCEPT !.call =
                  IF c.pc \in {"removing", "getting", "commitTxn"}
                    THEN [c EXCEPT !.pc = "done", !.callbacks = @ + 1]
                  ELSE IF c.pc = "beginTxn"
                    THEN IF pool = NoPool
                           THEN [c EXCEPT !.pc = "uncaught", !.thrown = "BoxError",
                                          !.code = NoClient]
                           ELSE [c EXCEPT !.pc = "saved",
                                          !.sent = Append(@, QuerySent("INSERT", pool, box.dialect))]
                  ELSE [c EXCEPT !.pc = "commitTxn",
                                 !.sent = Append(@, QuerySent("COMMIT", c.bound, "none"))]]
  /\ UNCHANGED <<oldVars, boxFrame>>

\* ---------------------------------------------------------------- include

\* The models of test/models with the columns that hold keys, and their
\* relations by name.  A relation declared without foreignKey has no
\* foreignKey field.
Rel(type, name, model) == [type |-> type, name |-> name, model |-> model]
RelKey(type, name, model, fk) ==
  [type |-> type, name |-> name, model |-> model, foreignKey |-> fk]

Models ==
  [user |->
     [name |-> "user", columns |-> {"id", "organizationId"},
      relations |-> [posts |-> RelKey("hasMany", "posts", "post", "authorId"),
                     comments |-> Rel("hasMany", "comments", "comment"),
                     organization |-> Rel("belongsTo", "organization", "organization")]],
   post |->
     [name |-> "post", columns |-> {"id", "authorId"},
      relations |-> [author |-> Rel("belongsTo", "author", "user"),
                     comments |-> Rel("hasMany", "comments", "comment")]],
   comment |->
     [name |-> "comment", columns |-> {"id", "userId", "postId"},
      relations |-> [user |-> RelKey("belongsTo", "user", "user", "userId"),
                     post |-> RelKey("belongsTo", "post", "post", "postId")]],
   organization |->
     [name |-> "organization", columns |-> {"id"},
      relations |-> [admin |-> RelKey("hasOne", "admin", "user", "organizationId"),
                     account |-> Rel("hasOne", "account", "account")]],
   account |->
     [name |-> "account", columns |-> {"id", "organizationId"},
      relations |-> [admin |-> RelKey("hasOne", "admin", "user", "organizationId")]]]

ModelNames == DOMAIN Models

relationByName(model, relationName) == Models[model].relations[relationName]

modelForRelation(model, relationName) == relationByName(model, relationName).model

\* The property name JavaScript makes of undefined in query[foreignKey],
\* _.pluck(records, foreignKey) and _.groupBy(rows, foreignKey)
NoKeyName == "undefined"

\* A foreign key derivation that follows the convention for hasOne as well
foreignKeyByConvention(model, relationName) ==
  LET relation == relationByName(model, relationName)
  IN IF "foreignKey" \in DOMAIN relation THEN relation.foreignKey
     ELSE IF relation.type = "belongsTo" THEN relation.name \o "Id"
     ELSE Models[model].name \o "Id"

foreignKeyForRelation(model, relationName) ==
  LET relation == relationByName(model, relationName)
  IN IF "foreignKey" \in DOMAIN relation THEN relation.foreignKey
     ELSE IF relation.type = "belongsTo" THEN relation.name \o "Id"
     ELSE IF relation.type = "hasMany" THEN Models[model].name \o "Id"
     ELSE NoKeyName

\* An inclusion spec: a relation name, an array of specs, an object whose
\* entries map a relation name to a nested spec, or a value of another type
\* (a number, a boolean, null)
Str(n) == [kind |-> "string", name |-> n, items |-> <<>>]
Arr(items) == [kind |-> "array", name |-> "", items |-> items]
Entry(k, v) == [kind |-> "entry", name |-> k, items |-> <<v>>]
Obj(entries) == [kind |-> "object", name |-> "", items |-> entries]
Other == [kind |-> "other", name |-> "", items |-> <<>>]

\* A record: the columns of its row, and the relations attached to it.  What
\* is attached: undefined, one record, or an array of records.
IncRec(row) == [row |-> row, att |-> EmptyObj]
Undefined == [kind |-> "undefined", rows |-> <<>>]
One(r) == [kind |-> "object", rows |-> <<r>>]
Many(rs) == [kind |-> "array", rows |-> rs]

pluck(records, key) == {Prop(records[i].row, key) : i \in DOMAIN records}

\* associatedModel.all(query, {}) with query = {key: {in: vals}}: the rows
\* in the order the table returns them, built.  whereClause adds no filter
\* for a key that is not a column of the model.
includeAll(model, key, vals, tbl) ==
  LET Passes(row) == key \in Models[model].columns => OpFilter(<<"in", vals>>, row[key])
      Rows == SelectSeq(tbl, Passes)
  IN [i \in 1..Len(Rows) |-> IncRec(Rows[i])]

\* _.findWhere(associatedRecords, {id: r[foreignKey]})
findWhereId(associated, v) ==
  LET hits == SelectSeq(associated, LAMBDA a : a.row.id = v)
  IN IF Len(hits) = 0 THEN Undefined ELSE One(hits[1])

\* _.groupBy(associatedRecords, foreignKey)[r.id] || []: without a foreign
\* key every row is grouped under the string of the row itself, which is
\* no id
groupOf(associated, foreignKey, id) ==
  SelectSeq(associated,
            LAMBDA a : foreignKey # NoKeyName /\ Prop(a.row, foreignKey) = id)

\* The assignments r[inc] = .. of the string case
attach(model, records, name, associated) ==
  LET relation == relationByName(model, name)
      foreignKey == foreignKeyForRelation(model, name)
      Value(r) ==
        IF relation.type = "belongsTo"
          THEN findWhereId(associated, Prop(r.row, foreignKey))
        ELSE LET g == groupOf(associated, foreignKey, r.row.id)
             IN IF relation.type = "hasOne"
                  THEN (IF Len(g) = 0 THEN Undefined ELSE One(g[1]))
                  ELSE Many(g)
  IN [i \in DOMAIN records |->
        [records[i] EXCEPT !.att = Put(records[i].att, name, Value(records[i]))]]

\* What a call of include leaves: the error passed to the callback, the
\* records with what was attached to them, the associated records passed
\* to the callback, and the secondary queries issued
Outcome(e, records, associated, queries) ==
  [err |-> e, records |-> records, associated |-> associated, queries |-> queries]

FirstErr(a, b) == IF a # 0 THEN a ELSE b

\* include(model, records, inc, callback) over the tables db.  The relation
\* names of a spec are relations the model declares.
RECURSIVE include(_, _, _, _)
RECURSIVE includeEach(_, _, _, _, _)
RECURSIVE includeEntries(_, _, _, _, _)

\* The query of the string case: {id: {in: _.pluck(records, foreignKey)}}
\* for belongsTo, {foreignKey: {in: _.pluck(records, 'id')}} otherwise
queryKey(model, name) ==
  IF relationByName(model, name).type = "belongsTo" THEN "id"
  ELSE foreignKeyForRelation(model, name)

queryVals(model, records, name) ==
  IF relationByName(model, name).type = "belongsTo"
    THEN pluck(records, foreignKeyForRelation(model, name))
    ELSE pluck(records, "id")

\* The callback of associatedModel.all in the string case
associated_(model, records, name, associated, queries) ==
  Outcome(0, attach(model, records, name, associated), associated, queries)

\* A string case that asks for the associated rows of every record apart
includeStringPerRecord(model, records, name, db) ==
  associated_(model, records, name,
              includeAll(modelForRelation(model, name), queryKey(model, name),
                         queryVals(model, records, name), db[modelForRelation(model, name)]),
              [i \in DOMAIN records |->
                 [model |-> modelForRelation(model, name), key |-> queryKey(model, name),
                  vals |-> queryVals(model, <<records[i]>>, name)]])

\* The string case: one query of the associated model, then the assignments
includeString(model, records, name, db) ==
  associated_(model, records, name,
              includeAll(modelForRelation(model, name), queryKey(model, name),
                         queryVals(model, records, name), db[modelForRelation(model, name)]),
              << [model |-> modelForRelation(model, name), key |-> queryKey(model, name),
                  vals |-> queryVals(model, records, name)] >>)

\* What two includes over the same records leave, one after the other
Both(o, rest) ==
  Outcome(FirstErr(o.err, rest.err), rest.records, <<>>, o.queries \o rest.queries)

\* async.each(inc, _.partial(include, model, records), callback): every item
\* is started, the first error is passed on
eachRest(model, items, db, i, o) ==
  Both(o, includeEach(model, o.records, items, db, i + 1))

includeEach(model, records, items, db, i) ==
  IF i > Len(items) THEN Outcome(0, records, <<>>, <<>>)
  ELSE eachRest(model, items, db, i, include(model, records, items[i], db))

\* async.parallel over the entries of an object: include of the key (o),
\* then include of the value over the associated records (nested).  The
\* records attached to the owners are the objects the nested include
\* extends.
entryRest(model, records, entries, db, i, o, nested) ==
  Both([nested EXCEPT !.queries = o.queries \o @],
       includeEntries(model, attach(model, records, entries[i].name, nested.records),
                      entries, db, i + 1))

entryNested(model, records, entries, db, i, o) ==
  entryRest(model, records, entries, db, i, o,
            include(modelForRelation(model, entries[i].name), o.associated,
                    entries[i].items[1], db))

includeEntries(model, records, entries, db, i) ==
  IF i > Len(entries) THEN Outcome(0, records, <<>>, <<>>)
  ELSE entryNested(model, records, entries, db, i,
                   includeString(model, records, entries[i].name, db))

include(model, records, spec, db) ==
  IF Len(records) = 0 THEN Outcome(0, records, <<>>, <<>>)
  ELSE IF spec.kind = "array" THEN includeEach(model, records, spec.items, db, 1)
  ELSE IF spec.kind = "object" THEN includeEntries(model, records, spec.items, db, 1)
  ELSE IF spec.kind = "string" THEN includeString(model, records, spec.name, db)
  ELSE Outcome(UnsupportedInclude, records, <<>>, <<>>)

\* The tables of a call, the call and what it left.  via: "include" for
\* Model.include(records, inc, cb), "get" for Model.get(id, {include}, cb).
EmptyDb == [m \in ModelNames |-> <<>>]
NoInclude ==
  [phase |-> "idle", db |-> EmptyDb, via |-> "none", model |-> "user",
   spec |-> Other, given |-> <<>>, records |-> <<>>, err |-> 0, queries |-> <<>>]

buildAll(tbl) == [i \in 1..Len(tbl) |-> IncRec(tbl[i])]

\* Model.include(records, inc, callback), records being the first n rows
\* of the model's table as all built them.  I: the models and the specs.
Include(I) ==
  /\ incl.phase = "idle"
  /\ \E m \in I.roots :
       \E spec \in I.specs[m], n \in 0..Len(incl.db[m]) :
         LET given == SubSeq(buildAll(incl.db[m]), 1, n)
             o == include(m, given, spec, incl.db)
         IN incl' = [incl EXCEPT !.phase = "done", !.via = "include", !.model = m,
                               !.spec = spec, !.given = given, !.records = o.records,
                               !.err = o.err, !.queries = o.queries]
  /\ UNCHANGED <<mainVars, revTable, revObj, revQuery, revErr, revCalls, revPc, rmod, vcheck,
                  qVars, par, yVars>>

\* Model.get(id, {include: inc}, callback): first with limit 1, all, which
\* builds the rows and calls include on them; get_ reports a 404 when
\* first delivers no object
GetInclude(I) ==
  /\ incl.phase = "idle"
  /\ \E m \in I.roots :
       \E spec \in I.specs[m], id \in I.ids :
         LET given == buildAll(SelectSeq(incl.db[m], LAMBDA row : row.id = id))
             o == include(m, given, spec, incl.db)
             e == IF o.err # 0 THEN o.err
                  ELSE IF Len(given) = 0 THEN NotFound ELSE 0
         IN incl' = [incl EXCEPT !.phase = "done", !.via = "get", !.model = m,
                               !.spec = spec, !.given = given, !.records = o.records,
                               !.err = e, !.queries = o.queries]
  /\ UNCHANGED <<mainVars, revTable, revObj, revQuery, revErr, revCalls, revPc, rmod, vcheck,
                  qVars, par, yVars>>

\* ----------------------------------------------------- calls without callback

\* A call of a method without a callback.  method and id, ids, w: the
\* method and the arguments given; callable: the call returned a function;
\* sent: the statements the call itself sent to the database; thrown: an
\* exception was thrown when the answer of such a statement arrived.
NoPartial ==
  [phase |-> "idle", method |-> "none", id |-> 0, ids |-> {}, w |-> EmptyObj,
   callable |-> FALSE, sent |-> 0, thrown |-> FALSE]

Bound(method, id, ids, w) == [NoPartial EXCEPT !.method = method, !.id = id, !.ids = ids, !.w = w]

\* The calls a caller makes: Model.get(id), Model.mget(ids),
\* Model.first(properties), Model.all(properties), Model.save(literal),
\* Model.remove(id), Model.modify(id, where, mutator) and
\* Model.query(function (t) { return t.select().where(properties); })
CallsWithoutCallback ==
  {Bound(m, id, {}, EmptyObj) : m \in {"get", "remove", "modify"}, id \in Ids}
    \cup {Bound("mget", 0, ids, EmptyObj) : ids \in SUBSET Ids}
    \cup {Bound(m, 0, {}, w) : m \in {"first", "all", "query"}, w \in Predicates}
    \cup {Bound("save", 0, {}, EmptyObj)}

\* if (!callback) { return _.partial(method, model, ..); } of get, mget,
\* first, all, save, remove and modify; query has no such test: it sends
\* its statement, and query_ calls the absent callback when the rows arrive
withoutCallback(c) ==
  IF c.method = "query"
    THEN [c EXCEPT !.phase = "held", !.callable = FALSE, !.sent = 1, !.thrown = TRUE]
    ELSE [c EXCEPT !.phase = "held", !.callable = TRUE]

CallWithoutCallback(p) ==
  /\ pc[p] = "idle" /\ op[p].kind = "none"
  /\ par.phase = "idle"
  /\ \E c \in CallsWithoutCallback : par' = withoutCallback(c)
  /\ UNCHANGED <<mainVars, revTable, revObj, revQuery, revErr, revCalls, revPc, rmod, vcheck,
                  qVars, incl, yVars>>

\* all(properties, callback): every row of the SELECT, built
OpAll(p) ==
  /\ Quiet(p)
  /\ \E w \in Predicates, fx \in cfg.fx["afterFetch"] :
       LET rows == all(working, w)
           e == IF fx = "err" /\ rows # {} THEN HookErr ELSE 0
       IN op' = [op EXCEPT ![p] =
                   [NoOp EXCEPT !.kind = "all", !.where = w, !.err = e,
                                !.out = IF e # 0 THEN {} ELSE {Built(working[j], fx) : j \in rows},
                                !.val = IF e # 0 THEN "none" ELSE "array",
                                !.callbacks = 1]]
  /\ UNCHANGED <<dbVars, heap, cfg, pc, calls, obj, before, clone, where, res, err, trace,
                  stmt, wrote, note, detail>>
  /\ UNCHANGED revVars

\* The function a call without callback returned is called with a
\* callback: _.partial passes the arguments it holds, then the callback
Invoke(p) ==
  /\ par.phase = "held" /\ par.callable
  /\ \/ par.method = "get" /\ OpGet(p) /\ op'[p].ids = {par.id}
     \/ par.method = "mget" /\ OpMget(p) /\ op'[p].ids = par.ids
     \/ par.method = "first" /\ OpFirst(p) /\ op'[p].where = par.w
     \/ par.method = "all" /\ OpAll(p) /\ op'[p].where = par.w
     \/ par.method = "remove" /\ OpRemove(p) /\ op'[p].ids = {par.id}
     \/ par.method = "modify" /\ Modify(p) /\ op'[p].ids = {par.id}
     \/ par.method = "save" /\ pc[p] \in {"idle", "done"}
          /\ calls[p] < cfg.maxCalls
          /\ \E lit \in cfg.literals : StartSave(p, Rec(lit, FALSE, EmptyObj), EmptyObj, TRUE)
          /\ UNCHANGED op

\* ------------------------------------------------------- specifications

NoHooks == [h \in HookNames |-> {"ok"}]

\* Concurrent callers of one process on one client: each fetches row 1,
\* changes it and saves it with a where guard; the descriptor has an
\* afterSave hook that may fail.
CfgConcurrent ==
  [fx |-> [NoHooks EXCEPT !["afterSave"] = {"ok", "err"}],
   faults |-> {FALSE},
   include |-> {FALSE},
   mutations |-> {"age", "name"},
   wheres |-> {"none", "same", "other"},
   literals |-> {},
   dialect |-> "postgres",
   maxCalls |-> 1]

\* One caller at a time, every kind of hook, input and driver fault
CfgSave ==
  [fx |-> [h \in HookNames |->
             IF h = "afterFetch" THEN {"ok", "setAge"}
             ELSE IF h = "beforeValidation" THEN {"ok", "prop", "unsetAge", "inplace"}
             ELSE IF h = "beforeSave" THEN {"ok", "setName", "err"}
             ELSE IF h = "afterSave" THEN {"ok", "err"}
             ELSE {"ok"}],
   faults |-> {FALSE, TRUE},
   include |-> {FALSE, TRUE},
   mutations |-> {"none", "age", "unsetAge"},
   wheres |-> {"none", "same", "other", "id", "bogus", "lt"},
   literals |-> {[name |-> 1, age |-> 1], [name |-> 0, age |-> 1], [name |-> 1],
                 [id |-> 0, name |-> 1, age |-> 1], [id |-> NULL, name |-> 1, age |-> 1],
                 [id |-> EMPTYSTR, name |-> 1, age |-> 1],
                 [id |-> UNDEF, name |-> 1, age |-> 1],
                 [id |-> 2, name |-> 1, age |-> 1],
                 [name |-> 1, age |-> 1, createdAt |-> 2]},
   dialect |-> "postgres",
   maxCalls |-> MaxCalls]

\* Two callers of one process on one client, no hook and no where guard:
\* each saves the record it holds as it is or with one column changed, and
\* goes on with what save delivered.
CfgWriters ==
  [fx |-> NoHooks,
   faults |-> {FALSE},
   include |-> {FALSE},
   mutations |-> {"none", "age", "name"},
   wheres |-> {"none"},
   literals |-> {},
   dialect |-> "postgres",
   maxCalls |-> MaxCalls]

\* One caller reads the rows with all, with or without opts.select, takes
\* one of the records, changes it or not, and saves it.
CfgSelect ==
  [fx |-> NoHooks,
   faults |-> {FALSE},
   include |-> {FALSE},
   mutations |-> {"none", "age", "name"},
   wheres |-> {"none"},
   literals |-> {},
   dialect |-> "postgres",
   maxCalls |-> MaxCalls]

SelectInputs ==
  [preds |-> {EmptyObj},
   selects |-> {NoSelect, Select({"age"}), Select({"name", "age"}), Select({"id", "age"})},
   limits |-> {UNDEF},
   offsets |-> {UNDEF},
   orders |-> {<<>>}]

\* One caller queries a table with all or with get and a query object; it
\* may change the record get delivered and save it with a guard.
CfgQuery ==
  [fx |-> NoHooks,
   faults |-> {FALSE},
   include |-> {FALSE},
   mutations |-> {"age"},
   wheres |-> {"none", "bogus"},
   literals |-> {},
   dialect |-> "postgres",
   maxCalls |-> MaxCalls]

\* The tables of up to MaxRows people of age 1 or 2, with distinct names
TableOf(ages) ==
  [j \in 1..Len(ages) |->
     [s \in SourceNames |-> IF s \in {"id", "name"} THEN j
                            ELSE IF s = "age" THEN ages[j] ELSE 0]]
Tables == {TableOf(a) : a \in UNION {[1..n -> {1, 2}] : n \in 0..MaxRows}}

QueryInputs ==
  [preds |-> {EmptyObj,
              [age |-> Scalar(2)],
              [age |-> OpMap(<< <<"gt", 0>>, <<"lt", 2>> >>)],
              [age |-> OpMap(<< <<"gte", 2>>, <<"not", 1>> >>), name |-> OpMap(<< <<"lt", 3>> >>)],
              [bogus |-> Scalar(1)],
              [age |-> Scalar(1), bogus |-> OpMap(<< <<"gt", 5>> >>)]},
   selects |-> {NoSelect},
   limits |-> {UNDEF, 0, 1, 2},
   offsets |-> {UNDEF, 0, 1},
   orders |-> {<<>>, << <<"age", "desc">> >>, << <<"age", "asc">>, <<"id", "desc">> >>}]

\* One caller: rows are added, read, removed and modified one call at a time
CfgOps ==
  [fx |-> [h \in HookNames |->
             IF h \in {"afterFetch", "beforeSave"} THEN {"ok", "err"} ELSE {"ok"}],
   faults |-> {FALSE, TRUE},
   include |-> {FALSE},
   mutations |-> {"none", "age"},
   wheres |-> {"none", "same", "other"},
   literals |-> {[name |-> 1, age |-> 1]},
   dialect |-> "postgres",
   maxCalls |-> MaxCalls]

\* The state after createClient and the creation of the table with rows tbl
InitMain(c, tbl) ==
  /\ cfg = c
  /\ committed = tbl
  /\ working = tbl
  /\ inTxn = FALSE
  /\ nextId = Cardinality(DOMAIN tbl) + 1
  /\ lastInsertId = 0
  /\ clock = 1
  /\ heap = [r \in Refs |-> 0]
  /\ pc = [p \in Procs |-> "idle"]
  /\ calls = [p \in Procs |-> 0]
  /\ obj = [p \in Procs |-> NoRec]
  /\ before = [p \in Procs |-> EmptyObj]
  /\ clone = [p \in Procs |-> EmptyObj]
  /\ where = [p \in Procs |-> EmptyObj]
  /\ res = [p \in Procs |-> NoRec]
  /\ err = [p \in Procs |-> 0]
  /\ trace = [p \in Procs |-> <<>>]
  /\ stmt = [p \in Procs |-> NoStmt]
  /\ wrote = [p \in Procs |-> 0]
  /\ note = [p \in Procs |-> NoNote]
  /\ detail = [p \in Procs |-> NoDetail]
  /\ op = [p \in Procs |-> NoOp]
  /\ revTable = (1 :> RevRow1)
  /\ revObj = [p \in Procs |-> EmptyObj]
  /\ revQuery = [p \in Procs |-> NoQuery]
  /\ revErr = [p \in Procs |-> 0]
  /\ revCalls = [p \in Procs |-> 0]
  /\ revPc = [p \in Procs |-> "idle"]
  /\ rmod = [p \in Procs |-> NoModify]
  /\ vcheck = NoCheck
  /\ qry = NoAll
  /\ box = NoBox

InitRest == conv = NoConv /\ hk = NoHookRun /\ sib = NoSiblings /\ cbk = NoCallback

InitTable(c, tbl) ==
  InitMain(c, tbl) /\ incl = NoInclude /\ par = NoPartial /\ InitRest

InitWith(c) == InitTable(c, 1 :> Row1)

\* One caller fetches the record, sets a property that is no column (or
\* changes a column, or nothing) and saves it; the model may declare a
\* beforeSave hook that derives a column from that property, as the
\* README's hashPassword does.
CfgDerive ==
  [fx |-> [h \in HookNames |-> IF h = "beforeSave" THEN {"ok", "derive"} ELSE {"ok"}],
   faults |-> {FALSE},
   include |-> {FALSE},
   mutations |-> {"none", "age", "password"},
   wheres |-> {"none", "same"},
   literals |-> {},
   dialect |-> "postgres",
   maxCalls |-> MaxCalls]

InitDerive == InitWith(CfgDerive)

NextDerive ==
  \/ Fetch(1)
  \/ CallSave(1)
  \/ Again(1)
  \/ BeginTxn(1)
  \/ RunHook(1)
  \/ Validation(1)
  \/ Saved(1)
  \/ Commit(1)

SpecDerive == InitDerive /\ [][NextDerive]_vars

\* The inclusion specs callers pass, per model
IncludeInputs ==
  [roots |-> ModelNames,
   ids |-> 1..(MaxOwned + 1),
   specs |->
     [user |-> {Str("posts"), Str("comments"), Str("organization"),
                Arr(<<Str("posts"), Str("comments")>>),
                Obj(<<Entry("posts", Str("comments"))>>),
                Arr(<<Str("comments"), Obj(<<Entry("posts", Str("comments"))>>)>>),
                Obj(<<Entry("posts", Other)>>),
                Arr(<<Other, Str("posts")>>),
                Other},
      post |-> {Str("author"), Str("comments"),
                Obj(<<Entry("comments", Str("user"))>>), Other},
      comment |-> {Str("user"), Str("post"), Other},
      organization |-> {Str("account"), Str("admin"),
                        Arr(<<Str("account"), Str("admin")>>), Other},
      account |-> {Str("admin"), Other}]]

\* Tables: rows get the ids 1, 2, .. in the order the table returns them
SeqsUpTo(S, n) == UNION {[1..k -> S] : k \in 0..n}
WithIds(f) == [i \in DOMAIN f |-> Put(f[i], "id", i)]
IdRows(n) == [i \in 1..n |-> [id |-> i]]
OwnerRefs == {NULL, 1, 2}

\* Users with their posts and comments; organizations with their accounts
\* and their admins
Databases ==
  {[EmptyDb EXCEPT !.user = WithIds([i \in 1..n |-> [organizationId |-> NULL]]),
                   !.post = WithIds(ps), !.comment = WithIds(cs)] :
     n \in 1..2,
     ps \in SeqsUpTo([authorId : OwnerRefs], MaxOwned),
     cs \in SeqsUpTo([userId : {1, 2}, postId : {1, 2}], MaxOwned)}
  \cup
  {[EmptyDb EXCEPT !.organization = IdRows(n), !.account = WithIds(as),
                   !.user = WithIds(us)] :
     n \in 1..2,
     as \in SeqsUpTo([organizationId : OwnerRefs], MaxOwned),
     us \in SeqsUpTo([organizationId : OwnerRefs], 1)}

InitInclude ==
  /\ InitMain(CfgQuery, 1 :> Row1)
  /\ par = NoPartial
  /\ InitRest
  /\ \E d \in Databases : incl = [NoInclude EXCEPT !.db = d]

NextInclude ==
  \/ Include(IncludeInputs)
  \/ GetInclude(IncludeInputs)

SpecInclude == InitInclude /\ [][NextInclude]_vars

\* One caller makes a call without callback and calls what it returned, up
\* to MaxCalls times for save and modify
CfgPartial ==
  [fx |-> NoHooks,
   faults |-> {FALSE},
   include |-> {FALSE},
   mutations |-> {"age"},
   wheres |-> {"none"},
   literals |-> {[name |-> 7, age |-> 1]},
   dialect |-> "postgres",
   maxCalls |-> MaxCalls]

InitPartial == \E tbl \in Tables : InitTable(CfgPartial, tbl)

NextPartial ==
  \/ CallWithoutCallback(1)
  \/ Invoke(1)
  \/ ModifySaved(1)
  \/ BeginTxn(1)
  \/ RunHook(1)
  \/ Validation(1)
  \/ Saved(1)
  \/ Commit(1)

SpecPartial == InitPartial /\ [][NextPartial]_vars


Init == InitWith(CfgConcurrent)

Next ==
  \/ \E p \in Procs : Fetch(p)
  \/ \E p \in Procs : CallSave(p)
  \/ \E p \in Procs : BeginTxn(p)
  \/ \E p \in Procs : RunHook(p)
  \/ \E p \in Procs : Validation(p)
  \/ \E p \in Procs : Saved(p)
  \/ \E p \in Procs : Commit(p)

Spec == Init /\ [][Next]_vars

InitSave == \E d \in Dialects : InitWith([CfgSave EXCEPT !.dialect = d])

NextSave ==
  \/ Fetch(1)
  \/ CallSave(1)
  \/ CallSaveNew(1)
  \/ Again(1)
  \/ BeginTxn(1)
  \/ RunHook(1)
  \/ Validation(1)
  \/ Saved(1)
  \/ Commit(1)

SpecSave == InitSave /\ [][NextSave]_vars

InitOps == InitWith(CfgOps)

NextOps ==
  \/ CallSaveNew(1)
  \/ OpGet(1)
  \/ OpFirst(1)
  \/ OpMget(1)
  \/ OpRemove(1)
  \/ Modify(1)
  \/ ModifySaved(1)
  \/ BeginTxn(1)
  \/ RunHook(1)
  \/ Validation(1)
  \/ Saved(1)
  \/ Commit(1)

SpecOps == InitOps /\ [][NextOps]_vars

NextRev ==
  \/ \E p \in Procs : RevGet(p)
  \/ \E p \in Procs : RevSave(p)
  \/ \E p \in Procs : RevUpdate(p)
  \/ \E p \in Procs : RevAgain(p)

SpecRev == Init /\ [][NextRev]_vars

NextRetry ==
  \/ RetryModify(1)
  \/ ModifyGet_(1)
  \/ ModifyUpdate(1)
  \/ OtherWrite
  \/ OtherRemove

\* Every query the client sends is answered
SpecRetry ==
  /\ Init /\ [][NextRetry]_vars
  /\ WF_vars(ModifyGet_(1)) /\ WF_vars(ModifyUpdate(1))

NextValidate ==
  \/ ValidateCall
  \/ ValidateRun

SpecValidate == Init /\ [][NextValidate]_vars

InitSelect == InitWith(CfgSelect)

NextSelect ==
  \/ All(1, SelectInputs)
  \/ Take(1)
  \/ CallSave(1)
  \/ Again(1)
  \/ BeginTxn(1)
  \/ RunHook(1)
  \/ Validation(1)
  \/ Saved(1)
  \/ Commit(1)

SpecSelect == InitSelect /\ [][NextSelect]_vars

InitQuery == \E tbl \in Tables : InitTable(CfgQuery, tbl)

NextQuery ==
  \/ All(1, QueryInputs)
  \/ GetBy(1, QueryInputs)
  \/ TakeGot(1)
  \/ CallSave(1)
  \/ BeginTxn(1)
  \/ RunHook(1)
  \/ Validation(1)
  \/ Saved(1)
  \/ Commit(1)

SpecQuery == InitQuery /\ [][NextQuery]_vars

\* One caller that guards its saves with a date, with an id entry of
\* another row or with nothing, and queries with dates
CfgGuard ==
  [fx |-> NoHooks,
   faults |-> {FALSE},
   include |-> {FALSE},
   mutations |-> {"none", "age"},
   wheres |-> {"none", "date", "idAge"},
   literals |-> {[name |-> 7, age |-> 1]},
   dialect |-> "postgres",
   maxCalls |-> MaxCalls]

GuardInputs ==
  [preds |-> {EmptyObj,
              [createdAt |-> OpMap(<<>>)],
              [age |-> Scalar(2), createdAt |-> OpMap(<<>>)],
              [age |-> OpMap(<<>>), name |-> OpMap(<< <<"lt", 3>> >>)]},
   selects |-> {NoSelect},
   limits |-> {UNDEF},
   offsets |-> {UNDEF},
   orders |-> {<<>>}]

InitGuard == \E tbl \in Tables : InitTable(CfgGuard, tbl)

NextGuard ==
  \/ All(1, GuardInputs)
  \/ GetBy(1, GuardInputs)
  \/ TakeGot(1)
  \/ CallSave(1)
  \/ CallSaveNewWhere(1)
  \/ Again(1)
  \/ BeginTxn(1)
  \/ RunHook(1)
  \/ Validation(1)
  \/ Saved(1)
  \/ Commit(1)

SpecGuard == InitGuard /\ [][NextGuard]_vars

InitClients == InitWith(CfgPartial)

NextClients ==
  \/ \E n \in ClientNames, d \in Drivers : createClient(n, d)
  \/ \E n \in ClientNames : removeClient(n)
  \/ \E n \in ClientNames : ModelRemove(n)
  \/ \E n \in ClientNames : ModelGet(n)
  \/ \E n \in ClientNames : ModelSave(n)
  \/ DriverAnswers

SpecClients == InitClients /\ [][NextClients]_vars

\* One caller fetches a record, passes it to get, and saves or removes
InitGetRecord == \E tbl \in Tables : InitTable(CfgQuery, tbl)

NextGetRecord ==
  \/ Fetch(1)
  \/ OpGetRecord(1)
  \/ OpRemove(1)
  \/ CallSave(1)
  \/ Again(1)
  \/ BeginTxn(1)
  \/ RunHook(1)
  \/ Validation(1)
  \/ Saved(1)
  \/ Commit(1)

SpecGetRecord == InitGetRecord /\ [][NextGetRecord]_vars

\* Every descriptor and every row of a table that has the sources of the
\* descriptor as columns, and a column the descriptor does not declare
InitConvert ==
  /\ InitMain(CfgQuery, 1 :> Row1)
  /\ incl = NoInclude /\ par = NoPartial /\ hk = NoHookRun /\ sib = NoSiblings
  /\ cbk = NoCallback
  /\ \E D \in ColumnLists :
       \E R \in {r \in SourceRows :
                   DOMAIN r \subseteq {D[i].source : i \in DOMAIN D} \cup {NoColumnKey}} :
         conv = [NoConv EXCEPT !.columns = D, !.row = R]

NextConvert == FromSource \/ ToSource \/ FromSourceAgain

SpecConvert == InitConvert /\ [][NextConvert]_vars

\* A model that declares one of its hooks as a list
InitHooks ==
  /\ InitMain(CfgQuery, 1 :> Row1)
  /\ incl = NoInclude /\ par = NoPartial /\ conv = NoConv /\ sib = NoSiblings
  /\ cbk = NoCallback
  /\ \E h \in ListHooks, l \in HookLists : hk = [NoHookRun EXCEPT !.hook = h, !.list = l]

NextHooks == HookSave \/ HookTaskDone \/ HookSignals

SpecHooks == InitHooks /\ [][NextHooks]_vars

\* A user with up to MaxPosts posts, an array spec of up to MaxBranches
\* branches, and a pool of one connection or of two
InitSiblings ==
  /\ InitMain(CfgQuery, 1 :> Row1)
  /\ incl = NoInclude /\ par = NoPartial /\ conv = NoConv /\ hk = NoHookRun
  /\ cbk = NoCallback
  /\ \E n \in 1..MaxBranches, np \in 0..MaxPosts, pm \in {1, 2} :
       \E sp \in [1..n -> Branches] :
         sib = [NoSiblings EXCEPT !.spec = sp, !.nposts = np, !.poolMax = pm]

NextSiblings == IncludeArray \/ SiblingAnswers

SpecSiblings == InitSiblings /\ [][NextSiblings]_vars

\* Every operation with every input it takes, on a table with or without
\* the rows asked for; the driver answers every query
InitCallbacks ==
  /\ InitMain(CfgQuery, 1 :> Row1)
  /\ incl = NoInclude /\ par = NoPartial /\ conv = NoConv /\ hk = NoHookRun
  /\ sib = NoSiblings
  /\ \E o \in Operations, n \in 0..MaxRows :
       \E i \in InputsOf(o) : cbk = [NoCallback EXCEPT !.op = o, !.input = i, !.rows = n]

NextCallbacks == CallOperation \/ DriverCallsBack

SpecCallbacks == InitCallbacks /\ [][NextCallbacks]_vars /\ WF_vars(DriverCallsBack)
                   /\ WF_vars(CallOperation)

InitWriters == InitWith(CfgWriters)

NextWriters ==
  \/ \E p \in Procs : Fetch(p)
  \/ \E p \in Procs : CallSave(p)
  \/ \E p \in Procs : Again(p)
  \/ \E p \in Procs : BeginTxn(p)
  \/ \E p \in Procs : RunHook(p)
  \/ \E p \in Procs : Validation(p)
  \/ \E p \in Procs : Saved(p)
  \/ \E p \in Procs : Commit(p)

SpecWriters == InitWriters /\ [][NextWriters]_vars

\* ------------------------------------------------- properties, C1 .. C10

\* A row satisfies an entry of a where object
Satisfies(e, x) == IF e.scalar THEN x = e.ops[1][2] ELSE EntryFilter(e, x)

\* The row with the record's id satisfies every entry of the caller's where
\* that names a declared column
GuardHolds(p, tbl) ==
  LET id == Prop(clone[p], "id")
  IN /\ id \in DOMAIN tbl
     /\ \A k \in (DOMAIN where[p]) \cap ColumnNames :
          Satisfies(where[p][k], tbl[id][toUnderscore(k)])

UpdateStep(p) == pc[p] = "saved" /\ pc'[p] # "saved" /\ Truthy(Prop(clone[p], "id"))

RowOf(tbl, id) == IF id \in DOMAIN tbl THEN tbl[id] ELSE NoRow

\* C1: the UPDATE of a save on a record with a truthy id changes the stored
\* row only if, when it executes, the row with that id satisfies every entry
\* of where naming a declared column; otherwise the save fails with 409,
\* delivers no record and leaves the stored row unchanged.
C1_GuardedUpdate ==
  [][\A p \in Procs :
       UpdateStep(p) =>
         LET id == Prop(clone[p], "id")
         IN /\ RowOf(working', id) # RowOf(working, id) => GuardHolds(p, working)
            /\ ~GuardHolds(p, working) =>
                 /\ err'[p] = Conflict
                 /\ res'[p] = NoRec
                 /\ RowOf(working', id) = RowOf(working, id)]_vars

\* A writer that read the row and saves an increment of age, guarded by the
\* age it read
FollowsPattern(p) ==
  /\ obj[p].hm
  /\ Prop(obj[p].o, "age") = Prop(obj[p].m, "age") + 1
  /\ Has(where[p], "age")
  /\ where[p]["age"] = Scalar(Prop(obj[p].m, "age"))

Succeeded == {p \in Procs : pc[p] = "done" /\ err[p] = 0}

\* C2: when every writer reads the row and saves an increment guarded by the
\* value it read, the final stored value is the initial value plus the number
\* of saves that reported success, and every other writer got a 409.
C2_NoLostUpdate ==
  (\A p \in Procs : pc[p] = "done" /\ FollowsPattern(p) /\ err[p] # HookErr) =>
     /\ committed[1]["age"] = Row1["age"] + Cardinality(Succeeded)
     /\ \A p \in Procs : err[p] \in {0, Conflict}

Visible(tbl, stamp) == \E j \in DOMAIN tbl : tbl[j]["updated_at"] = stamp

Reports(p) == pc[p] # "done" /\ pc'[p] = "done"

\* C4: when a save fails after its INSERT / UPDATE, the row it wrote is not
\* visible once it has reported its error, also with other saves in flight
\* on the client; and the ROLLBACK or COMMIT of one save neither rolls back
\* nor commits the write of another save.
C4_AtomicSave ==
  [][\A p \in Procs :
       /\ (pc'[p] = "done" /\ err'[p] # 0 /\ wrote'[p] # 0) =>
            ~Visible(committed', wrote'[p]) /\ ~Visible(working', wrote'[p])
       /\ \A q \in Procs \ {p} :
            (Reports(p) /\ pc[q] # "done" /\ wrote[q] # 0) =>
              /\ Visible(committed', wrote[q]) <=> Visible(committed, wrote[q])
              /\ Visible(working', wrote[q]) <=> Visible(working, wrote[q])]_vars

RevStep(p) == revPc[p] = "updating" /\ revPc'[p] = "done"

StoredRev(id) == IF id \in DOMAIN revTable THEN revTable[id]["revision"] ELSE NULL

\* C3: in the revision variant an update succeeds if and only if the
\* revision submitted equals the stored revision, a successful update raises
\* the stored revision by one, a failed one reports 409 and changes nothing;
\* so two saves submitted at the same revision never both succeed.
C3_RevisionGuard ==
  [][\A p \in Procs :
       /\ RevStep(p) =>
            LET q == revQuery[p]
            IN /\ revErr'[p] = 0 <=> q.cur = StoredRev(q.id)
               /\ revErr'[p] = 0 =>
                    revTable'[q.id]["revision"] = revTable[q.id]["revision"] + 1
               /\ revErr'[p] # 0 => revErr'[p] = Conflict /\ revTable' = revTable
       /\ \A q \in Procs \ {p} :
            (/\ revPc'[p] = "done" /\ revPc'[q] = "done"
             /\ revQuery'[p].cur > 0
             /\ revQuery'[p].id = revQuery'[q].id
             /\ revQuery'[p].cur = revQuery'[q].cur) =>
              ~(revErr'[p] = 0 /\ revErr'[q] = 0)]_vars

\* Two copies fetched at the same revision were saved: one succeeded, the
\* other got a 409
C3_Witness ==
  \E p \in Procs : \E q \in Procs \ {p} :
    /\ revPc[p] = "done" /\ revPc[q] = "done"
    /\ revQuery[p].cur > 0 /\ revQuery[p].cur = revQuery[q].cur
    /\ revErr[p] = 0 /\ revErr[q] = Conflict

Count(tr, ev) == Cardinality({i \in DOMAIN tr : tr[i] = ev})

\* C5: a save that fails at a step after BEGIN issues a ROLLBACK and no
\* COMMIT, a save that succeeds issues exactly one COMMIT and no ROLLBACK,
\* and no save reports its outcome with its transaction open.
C5_TxnClosed ==
  \A p \in Procs :
    pc[p] = "done" =>
      /\ (err[p] # 0 /\ trace[p][2] # "ROLLBACK") =>
           Count(trace[p], "ROLLBACK") = 1 /\ Count(trace[p], "COMMIT") = 0
      /\ err[p] = 0 =>
           Count(trace[p], "COMMIT") = 1 /\ Count(trace[p], "ROLLBACK") = 0
      /\ ~inTxn

Listed == {"BEGIN", "beforeValidation", "validation", "afterValidation", "beforeSave",
           "INSERT", "UPDATE", "afterCreate", "afterUpdate", "afterSave", "COMMIT",
           "callback"}

InsertOrder == <<"BEGIN", "beforeValidation", "validation", "afterValidation",
                 "beforeSave", "INSERT", "afterCreate", "afterSave", "COMMIT", "callback">>

UpdateOrder == <<"BEGIN", "beforeValidation", "validation", "afterValidation",
                 "beforeSave", "UPDATE", "afterUpdate", "afterSave", "COMMIT", "callback">>

Wrote(p) == pc[p] = "done" /\ err[p] = 0 /\ wrote[p] # 0

\* C6: the events of a save that succeeds with changes to write occur in the
\* order BEGIN, beforeValidation, validation, afterValidation, beforeSave,
\* INSERT or UPDATE, afterCreate (insert) or afterUpdate (update),
\* afterSave, COMMIT, callback.
C6_SaveOrder ==
  \A p \in Procs :
    Wrote(p) =>
      SelectSeq(trace[p], LAMBDA e : e \in Listed) =
        IF Truthy(Prop(obj[p].o, "id")) THEN UpdateOrder ELSE InsertOrder

C6_Witness ==
  /\ Wrote(1) /\ calls[1] = MaxCalls
  /\ Truthy(Prop(obj[1].o, "id"))
  /\ \E i \in DOMAIN trace[1] : trace[1][i] = "afterUpdate"

\* A record violating a declared rule: age must be an integer and not null
Violates(o) == Prop(o, "age") \notin Nat

AfterValidation == {"afterValidation", "beforeSave", "INSERT", "UPDATE", "afterCreate",
                    "afterUpdate", "afterSave", "COMMIT"}

\* C7: when validation of the record as left by beforeValidation reports a
\* failure, save fails with 403 and none of afterValidation, beforeSave,
\* INSERT / UPDATE, afterCreate, afterUpdate, afterSave, COMMIT occurs.
C7_ValidationBlocks ==
  [][\A p \in Procs :
       (pc[p] = "validation" /\ pc'[p] # "validation" /\ Violates(clone[p])) =>
         /\ pc'[p] = "done"
         /\ err'[p] = Forbidden
         /\ \A i \in DOMAIN trace'[p] : trace'[p][i] \notin AfterValidation
         /\ stmt'[p] = NoStmt
         /\ working' = committed /\ committed' = committed]_vars

\* A record the caller passed valid, made invalid by beforeValidation, was
\* refused
C7_Witness ==
  /\ pc[1] = "done" /\ err[1] = Forbidden
  /\ ~Violates(obj[1].o)
  /\ trace[1] = <<"BEGIN", "beforeValidation", "validation", "ROLLBACK", "callback">>

\* C8: saving a record just fetched or just returned by save, with no field
\* mutated by the caller (and none by the hooks of this save), ends at the
\* change check: no INSERT / UPDATE, no beforeSave, afterUpdate, afterSave,
\* and the record delivered equals the input.
C8_NoChangeNoWrite ==
  [][\A p \in Procs :
       (/\ pc[p] = "afterValidation" /\ pc'[p] # "afterValidation"
        /\ note[p].fetched /\ ~note[p].mutated
        /\ clone'[p] = cloneObject(obj[p].o, p)) =>
         /\ pc'[p] = "done"
         /\ err'[p] = 0
         /\ stmt'[p] = NoStmt
         /\ Deep(res'[p].o, heap') = Deep(obj[p].o, heap')]_vars

\* C9: after a failed save the caller's record has exactly the properties
\* and values it had before the call.
C9_CallerUntouched ==
  \A p \in Procs :
    (pc[p] = "done" /\ err[p] # 0) => Deep(obj[p].o, heap) = before[p]

\* C10: an INSERT of save that stores a row carries no id supplied by the
\* caller: the id of the stored row is assigned by the database alone.
C10_NoClientId ==
  \A p \in Procs :
    (stmt[p].kind = "INSERT" /\ wrote[p] # 0) => ~Has(stmt[p].cols, "id")

\* ------------------------------------------------ properties, C11 .. C20

\* C11: in every INSERT and UPDATE that save issues, under either dialect,
\* created_at and updated_at carry no value of the client: where the
\* statement names one of them with a parameter, the parameter is the
\* server's NOW().
C11_ServerTimestamps ==
  \A p \in Procs : \A s \in Timestamps \cap DOMAIN stmt[p].cols : stmt[p].cols[s] = NOW

\* C12: a save whose statement violated a unique constraint delivers a 409
\* whose conflicts hold one entry: key the name of the violated column,
\* value the duplicated value, expected 'unique', under either dialect.
C12_ConflictEntry ==
  \A p \in Procs :
    (pc[p] = "done" /\ detail[p].dup # NoDup) =>
      /\ err[p] = Conflict
      /\ detail[p].conflicts =
           << [key |-> Piece("name", detail[p].dup.col, NULL),
               value |-> Piece("value", "", detail[p].dup.val),
               expected |-> "unique"] >>

\* The columns a caller changed in the record it fetched
Changed(p) == {c \in ColumnNames : Prop(before[p], c) # Prop(obj[p].m, c)}

\* Two callers fetched the same row, changed different columns and saved
\* without a where guard; both calls are over, none ended by a hook's error
DisjointWriters(p, q) ==
  /\ p # q /\ pc[p] = "done" /\ pc[q] = "done"
  /\ obj[p].hm /\ obj[q].hm /\ Prop(obj[p].m, "id") = Prop(obj[q].m, "id")
  /\ DOMAIN where[p] \subseteq {"id"} /\ DOMAIN where[q] \subseteq {"id"}
  /\ Changed(p) # {} /\ Changed(q) # {} /\ Changed(p) \cap Changed(q) = {}
  /\ err[p] # HookErr /\ err[q] # HookErr

\* C13: two writers that fetched the same row and changed different columns
\* both succeed, in either order; the stored row carries the changes of
\* both, and a column neither changed keeps its value.
C13_DisjointColumns ==
  \A p, q \in Procs :
    DisjointWriters(p, q) =>
      LET id == Prop(obj[p].m, "id")
      IN /\ err[p] = 0 /\ err[q] = 0
         /\ id \in DOMAIN committed
         /\ \A c \in Changed(p) : committed[id][toUnderscore(c)] = before[p][c]
         /\ \A c \in Changed(q) : committed[id][toUnderscore(c)] = before[q][c]
         /\ \A c \in ColumnNames \ (Changed(p) \cup Changed(q) \cup {"updatedAt"}) :
              committed[id][toUnderscore(c)] = Prop(obj[p].m, c)

\* The where object of the save of a modify is the one modify was given
\* (saveUpdate adds the id of the record to it)
GivenWhere(p) ==
  /\ (DOMAIN where[p]) \ {"id"} = (DOMAIN op[p].where) \ {"id"}
  /\ \A k \in (DOMAIN where[p]) \ {"id"} : where[p][k] = op[p].where[k]

OpStep(p, kind) == op'[p] # op[p] /\ op'[p].kind = kind

C18_MgetExact ==
  [][\A p \in Procs :
       OpStep(p, "mget") =>
         LET found == op'[p].ids \cap DOMAIN working
         IN /\ op'[p].err # 0 => found # {} /\ op'[p].err = HookErr
            /\ op'[p].err = 0 =>
                 /\ op'[p].val = "array"
                 /\ {Prop(r.o, "id") : r \in op'[p].out} = found
                 /\ Cardinality(op'[p].out) = Cardinality(found)
                 /\ \A r \in op'[p].out : r.m = pruneToColumns(working[Prop(r.o, "id")])]_vars

C18_Witness ==
  \E p \in Procs :
    /\ op[p].kind = "mget" /\ op[p].err = 0
    /\ Cardinality(op[p].ids) = 2 /\ Cardinality(op[p].out) = 1

RetryCycles(m) ==
  /\ m.gets <= maxRetries(m.max)
  /\ m.gets <= m.conflicts + 1
  /\ m.conflicts <= m.saves /\ m.saves = m.mutators /\ m.mutators <= m.gets
  /\ (m.phase = "saving" => m.saves = m.gets /\ m.gets = m.conflicts + 1)
  /\ m.callbacks = (IF m.phase = "done" THEN 1 ELSE 0)

C16_ExhaustedTimeout ==
  \A p \in Procs : rmod[p].exhausted => rmod[p].err = Timeout

\* The rules of a list a value fails, in the order of the list
FailedOf(rules, v) == SelectSeq(rules, LAMBDA rule : ~RulePasses(rule, v))

\* C20: the errors of a validation hold exactly one entry per field that
\* failed at least one of its rules; the entry's failed list holds the
\* failed rules in the order they are declared, its expected list all the
\* declared rules; a field that failed no rule has no entry.
C20_OneEntryPerField ==
  vcheck.phase = "done" =>
    LET E == vcheck.errors
        vs == vcheck.vs
    IN /\ \A i, j \in 1..Len(E) : E[i].key = E[j].key => i = j
       /\ {E[i].key : i \in 1..Len(E)} =
            {vs[k].key : k \in {k \in 1..Len(vs) :
                                  FailedOf(vs[k].rules, Prop(vcheck.o, vs[k].key)) # <<>>}}
       /\ \A i \in 1..Len(E) : \E k \in 1..Len(vs) :
            /\ vs[k].key = E[i].key
            /\ E[i].expected = vs[k].rules
            /\ E[i].failed = FailedOf(vs[k].rules, Prop(vcheck.o, vs[k].key))
            /\ E[i].value = Prop(vcheck.o, vs[k].key)

\* Two fields failed: one both of its rules, the other one rule of two
C20_Witness ==
  /\ vcheck.phase = "done"
  /\ Len(vcheck.errors) = 2
  /\ \E i \in 1..2 : Len(vcheck.errors[i].failed) = 2
  /\ \E i \in 1..2 : Len(vcheck.errors[i].failed) = 1 /\ Len(vcheck.errors[i].expected) = 2

\* ------------------------------------------------ properties, C21 .. C30

\* The statements a save has sent to the client
Sent(p) ==
  {trace[p][i] : i \in 1..Len(trace[p])} \cap
    {"BEGIN", "INSERT", "UPDATE", "COMMIT", "ROLLBACK"}

\* C21: a save of a fetched record that has no changes sends no statement
\* to the client: no BEGIN, no UPDATE, no COMMIT, no ROLLBACK.
C21_NoStatement ==
  \A p \in Procs :
    (/\ pc[p] = "done" /\ err[p] = 0
     /\ obj[p].hm /\ ~hasChanges(clone[p], TRUE, obj[p].m)) => Sent(p) = {}

\* The record a caller saved came from a query whose select omitted id
Pruned(p) == pc[p] = "done" /\ obj[p].hm /\ "id" \notin DOMAIN obj[p].m

\* The caller changed a column of the record after it was fetched
Modified(p) == \E c \in ColumnNames : Prop(before[p], c) # Prop(obj[p].m, c)

\* The save sent an INSERT and delivered the new row, a row more in the table
Inserted(p) ==
  /\ stmt[p].kind = "INSERT" /\ wrote[p] # 0
  /\ res[p].o["id"] = nextId - 1
  /\ res[p].o["id"] \in DOMAIN committed

Satisfying(tbl, w) ==
  {j \in DOMAIN tbl :
     \A k \in (DOMAIN w) \cap ColumnNames :
       \A i \in DOMAIN w[k].ops : OpFilter(w[k].ops[i], tbl[j][toUnderscore(k)])}

\* The ids a sequence of ids holds
Range(f) == {f[i] : i \in DOMAIN f}

\* C23: when a predicate maps a field to several operators every operator
\* adds a filter and all filters, of that field and of the others, are
\* conjoined: all returns exactly the rows satisfying every operator entry.
C23_OperatorsConjoined ==
  (qry.phase = "done" /\ qry.kind = "all") =>
    /\ Range(qry.full) = Satisfying(qry.tbl, qry.pred)
    /\ Len(qry.full) = Cardinality(Satisfying(qry.tbl, qry.pred))

\* all({age: {gt: 0, lt: 2}}) over rows aged 1, 2 and 2 returns the row aged 1
C23_Witness ==
  /\ qry.phase = "done" /\ qry.kind = "all"
  /\ qry.tbl = TableOf(<<1, 2, 2>>)
  /\ qry.pred = [age |-> OpMap(<< <<"gt", 0>>, <<"lt", 2>> >>)]
  /\ qry.full = <<1>>

\* A predicate without its entries of unknown keys
Known(w) == [k \in (DOMAIN w) \cap ColumnNames |-> w[k]]

\* C24: an entry whose key is not the name of a declared column adds no
\* filter and raises no error: all returns the rows of the predicate
\* without the entry, get with unknown keys only delivers the first row of
\* the table (a 404 for an empty table), and a save guarded by unknown
\* fields only updates the row of the record's id.
C24_UnknownSkipped ==
  /\ (qry.phase = "done" /\ qry.kind = "all") =>
       Range(qry.full) = all(qry.tbl, Known(qry.pred))
  /\ (qry.phase = "done" /\ qry.kind = "get" /\ Known(qry.pred) = EmptyObj) =>
       IF DOMAIN qry.tbl = {} THEN qry.err = NotFound /\ qry.rows = <<>>
       ELSE /\ qry.err = 0 /\ Len(qry.rows) = 1
            /\ Range(qry.full) = DOMAIN qry.tbl
            /\ qry.ids = <<qry.full[1]>>
            /\ qry.rows[1] = build(qry.tbl[qry.full[1]])
  /\ \A p \in Procs :
       (pc[p] = "done" /\ stmt[p].kind = "UPDATE"
          /\ (DOMAIN stmt[p].where) \cap ColumnNames = {"id"}) =>
         LET id == obj[p].m["id"]
         IN /\ err[p] = 0 /\ wrote[p] # 0
            /\ committed[id]["age"] = before[p]["age"]
            /\ \A j \in (DOMAIN committed) \ {id} : committed[j] = qry.tbl[j]

\* get with an unknown entry only on a table of three rows, and a save of
\* the record it delivered guarded by an unknown field
C24_Witness ==
  /\ qry.phase = "done" /\ qry.kind = "get" /\ DOMAIN qry.pred = {"bogus"}
  /\ Len(qry.full) = 3 /\ qry.err = 0
  /\ pc[1] = "done" /\ stmt[1].kind = "UPDATE" /\ "bogus" \in DOMAIN stmt[1].where
  /\ err[1] = 0

\* C25: limit and offset reach the query for every non-negative integer,
\* 0 included: all delivers the matching rows at positions offset + 1 to
\* offset + limit in query order, at most limit records.
C25_LimitOffset ==
  (qry.phase = "done" /\ qry.kind = "all") =>
    LET k == IF qry.opts.offset = UNDEF THEN 0 ELSE qry.opts.offset
        n == IF qry.opts.limit = UNDEF THEN Len(qry.full) ELSE qry.opts.limit
    IN /\ Len(qry.ids) <= n
       /\ qry.ids = SubSeq(qry.full, k + 1, IF k + n < Len(qry.full) THEN k + n ELSE Len(qry.full))


\* The rows of the relation's target table that belong to record r: for
\* belongsTo the rows whose id is the record's foreign-key value, for
\* hasMany and hasOne the rows whose foreign key is the record's id.  The
\* foreign key is the declared one, or the one the convention gives.
Owned(model, name, r, db) ==
  LET relation == relationByName(model, name)
      fk == foreignKeyByConvention(model, name)
  IN SelectSeq(db[relation.model],
               LAMBDA row : IF relation.type = "belongsTo"
                              THEN row.id = Prop(r.row, fk)
                              ELSE Prop(row, fk) = r.row.id)

RowsOf(a) == [i \in DOMAIN a.rows |-> a.rows[i].row]

AttachedAsOwned(model, name, r, db) ==
  LET type == relationByName(model, name).type
      owned == Owned(model, name, r, db)
      a == r.att[name]
  IN /\ name \in DOMAIN r.att
     /\ IF type = "hasMany" THEN a.kind = "array" /\ RowsOf(a) = owned
        ELSE IF Len(owned) = 0 THEN a.kind = "undefined"
        ELSE a.kind = "object" /\ RowsOf(a) = <<owned[1]>>

\* C26: after include of a string relation every owning record carries,
\* under the relation's name, the target row its foreign key names
\* (belongsTo), the array of the target rows whose foreign key is its id
\* (hasMany, [] for none), or the first such row (hasOne), undefined when
\* there is none
C26_StringAttach ==
  (incl.phase = "done" /\ incl.via = "include" /\ incl.spec.kind = "string")
    => \A i \in DOMAIN incl.records :
         AttachedAsOwned(incl.model, incl.spec.name, incl.records[i], incl.db)


\* The row(s) of the relation's target whose column <owner name>Id holds
\* the id of record r
OwnedByName(model, name, r, db) ==
  SelectSeq(db[relationByName(model, name).model],
            LAMBDA row : Prop(row, Models[model].name \o "Id") = r.row.id)

\* C29: a hasOne or hasMany relation declared without foreignKey attaches
\* to each owner the target row(s) whose column <owner name>Id holds the
\* owner's id, through include and through get with the include option
C29_DerivedKey ==
  (/\ incl.phase = "done" /\ incl.err = 0 /\ incl.spec.kind = "string"
   /\ relationByName(incl.model, incl.spec.name).type \in {"hasOne", "hasMany"}
   /\ "foreignKey" \notin DOMAIN relationByName(incl.model, incl.spec.name))
    => \A i \in DOMAIN incl.records :
         LET a == incl.records[i].att[incl.spec.name]
             owned == OwnedByName(incl.model, incl.spec.name, incl.records[i], incl.db)
         IN IF a.kind = "array" THEN RowsOf(a) = owned
            ELSE IF Len(owned) = 0 THEN a.kind = "undefined"
            ELSE a.kind = "object" /\ RowsOf(a)[1] = owned[1]


PostsThenComments == Obj(<<Entry("posts", Str("comments"))>>)

\* Some post belongs to one of the records
HasPosts(records, db) ==
  \E i \in DOMAIN records, j \in DOMAIN db["post"] :
    db["post"][j].authorId = records[i].row.id

\* C27 as stated: a string relation over N >= 1 records issues one query,
\* get with include {posts: 'comments'} issues exactly 2 extra queries,
\* and inclusion over an empty record list issues none
C27_TwoExtraQueries ==
  incl.phase = "done" =>
    /\ Len(incl.given) = 0 => Len(incl.queries) = 0
    /\ (Len(incl.given) >= 1 /\ incl.spec.kind = "string") => Len(incl.queries) = 1
    /\ (incl.via = "get" /\ incl.err = 0 /\ incl.spec = PostsThenComments)
         => Len(incl.queries) = 2

\* C27: inclusion issues one secondary query per relation name per level
\* whose list of owning records is not empty, whatever the number N >= 1 of
\* owning records: a string relation issues one query, to the relation's
\* model; {posts: 'comments'} issues 2 queries when the records have a post
\* and 1 when they have none; an array of names one query per name; an
\* empty record list none
C27_OnePerLevel ==
  incl.phase = "done" =>
    /\ Len(incl.given) = 0 => Len(incl.queries) = 0
    /\ (Len(incl.given) >= 1 /\ incl.spec.kind = "string")
         => /\ Len(incl.queries) = 1
            /\ incl.queries[1].model = modelForRelation(incl.model, incl.spec.name)
    /\ (Len(incl.given) >= 1 /\ incl.spec = PostsThenComments)
         => /\ Len(incl.queries) = (IF HasPosts(incl.given, incl.db) THEN 2 ELSE 1)
            /\ incl.queries[1].model = "post"
            /\ Len(incl.queries) = 2 => incl.queries[2].model = "comment"
    /\ (Len(incl.given) >= 1 /\ incl.spec = Arr(<<Str("posts"), Str("comments")>>))
         => Len(incl.queries) = 2

\* Two users read with one include of {posts: 'comments'}: two queries, the
\* posts of a user attached with their comments
C27_Witness ==
  /\ incl.phase = "done" /\ incl.via = "include" /\ incl.err = 0
  /\ incl.spec = PostsThenComments
  /\ Len(incl.given) = 2
  /\ Len(incl.queries) = 2
  /\ \E i \in DOMAIN incl.records :
       /\ Len(incl.records[i].att["posts"].rows) = 2
       /\ \E j \in 1..2 : Len(incl.records[i].att["posts"].rows[j].att["comments"].rows) >= 1


\* C28: include with a spec that is neither a string, an array nor an
\* object passes an error to its callback, attaches nothing and issues no
\* query, whether the records are empty or not
C28_UnsupportedSpec ==
  (incl.phase = "done" /\ incl.via = "include" /\ incl.spec.kind = "other")
    => /\ incl.err = UnsupportedInclude
       /\ incl.records = incl.given
       /\ incl.queries = <<>>


\* C30: a call of get, mget, first, all, save, remove, modify or query
\* without a callback sends no statement and returns a function, and every
\* call of that function performs the method with the arguments given
C30_PartialApplication ==
  par.phase = "held" =>
    /\ par.callable /\ par.sent = 0 /\ ~par.thrown
    /\ op[1].kind # "none" =>
         /\ op[1].kind = par.method
         /\ par.method \in {"get", "remove", "modify"} => op[1].ids = {par.id}
         /\ par.method = "mget" => op[1].ids = par.ids
         /\ par.method \in {"first", "all"} => op[1].where = par.w
    /\ (calls[1] > 0 /\ par.method = "save") => before[1] = [name |-> 7, age |-> 1]


\* ------------------------------------------------- properties, C31 .. C40

InTrace(p, ev) == \E i \in DOMAIN trace[p] : trace[p][i] = ev

\* The record passed to save has the columns of its snapshot and a
\* property that is no column
OnlyNonColumns(p) ==
  /\ obj[p].hm
  /\ \A c \in ColumnNames : Prop(before[p], c) = Prop(obj[p].m, c)
  /\ DOMAIN before[p] \ ColumnNames # {}

\* C38: a save of a fetched record of which only properties that are no
\* declared columns were changed sends no UPDATE and does not run
\* beforeSave, whatever that hook would have derived; it delivers the
\* record without an error
C38_NonColumnChange ==
  (calls[1] > 0 /\ OnlyNonColumns(1))
    => /\ ~InTrace(1, "UPDATE") /\ ~InTrace(1, "INSERT")
       /\ ~InTrace(1, "beforeSave")
       /\ pc[1] # "beforeSave" /\ pc[1] # "saved"
       /\ pc[1] = "done" => (err[1] = 0 /\ working = committed)

C38_Witness ==
  /\ pc[1] = "done" /\ OnlyNonColumns(1)
  /\ "derive" \in cfg.fx["beforeSave"]
  /\ Prop(before[1], "password") = 1
  /\ trace[1] = <<"BEGIN", "beforeValidation", "validation", "afterValidation",
                  "ROLLBACK", "callback">>
  /\ res[1].o = before[1]


\* A predicate without its entries that are operator maps naming no operator
WithoutEmpty(w) == [k \in {x \in DOMAIN w : w[x].scalar \/ w[x].ops # <<>>} |-> w[k]]

\* A predicate has an entry of a declared column that is an object without
\* enumerable keys
HasEmpty(w) == \E k \in (DOMAIN w) \cap ColumnNames : ~w[k].scalar /\ w[k].ops = <<>>

\* C39: a predicate value that is an object without enumerable keys adds no
\* filter: all and get return the rows of the predicate without the entry,
\* and an update guarded by such an entry only is the update guarded by
\* the id alone, which succeeds on the row of the record's id.
C39_EmptyObjectNoFilter ==
  /\ (qry.phase = "done" /\ HasEmpty(qry.pred)) =>
       /\ Range(qry.full) = Satisfying(qry.tbl, WithoutEmpty(qry.pred))
       /\ Len(qry.full) = Cardinality(Range(qry.full))
  /\ \A p \in Procs :
       (pc[p] = "done" /\ stmt[p].kind = "UPDATE" /\ HasEmpty(stmt[p].where)
          /\ DOMAIN WithoutEmpty(stmt[p].where) = {"id"}) =>
         /\ err[p] = 0 /\ wrote[p] # 0
         /\ committed[obj[p].m["id"]]["age"] = before[p]["age"]

\* all({age: 2, createdAt: <Date>}) returned the rows aged 2, and a second
\* save guarded by {updatedAt: <Date>} updated the row the first had stamped
C39_Witness ==
  /\ qry.phase = "done" /\ qry.kind = "get"
  /\ qry.pred = [age |-> Scalar(2), createdAt |-> OpMap(<<>>)]
  /\ qry.tbl = TableOf(<<1, 2, 2>>) /\ qry.full \in {<<2, 3>>, <<3, 2>>}
  /\ pc[1] = "done" /\ calls[1] = 2 /\ stmt[1].kind = "UPDATE"
  /\ "updatedAt" \in DOMAIN stmt[1].where
  /\ err[1] = 0 /\ wrote[1] # 0

\* all with a date entry on a table of three rows
C39_WitnessAll ==
  /\ qry.phase = "done" /\ qry.kind = "all"
  /\ qry.pred = [createdAt |-> OpMap(<<>>)]
  /\ Len(qry.full) = 3

\* C40: the step of save that sends the statement writes the id of a record
\* with a truthy id into the caller's where object, replacing an id entry
\* and leaving every other entry as it was, and the UPDATE is guarded by
\* that id; for a record without id the where object stays as it was; no
\* other step of save changes the where object.
C40_WhereFrame ==
  [][\A p \in Procs :
       /\ (pc[p] = "saved" /\ pc'[p] # "saved") =>
            IF Truthy(Prop(clone[p], "id"))
              THEN /\ DOMAIN where'[p] = (DOMAIN where[p]) \cup {"id"}
                   /\ where'[p]["id"] = Scalar(Prop(clone[p], "id"))
                   /\ \A k \in (DOMAIN where[p]) \ {"id"} : where'[p][k] = where[p][k]
                   /\ stmt'[p].kind = "UPDATE" /\ stmt'[p].where = where'[p]
                   /\ \A j \in DOMAIN working' :
                        working'[j] # working[j] => j = Prop(clone[p], "id")
              ELSE where'[p] = where[p] /\ stmt'[p].kind = "INSERT"
       /\ (pc[p] \notin {"saved", "have", "idle"}) => where'[p] = where[p]]_vars

\* A save guarded by {id: <another id>, age: <the record's age>} went
\* through: the where object names the record's id and still the age
C40_Witness ==
  /\ pc[1] = "done" /\ stmt[1].kind = "UPDATE" /\ err[1] = 0
  /\ DOMAIN where[1] = {"id", "age"}
  /\ where[1]["id"] = Scalar(obj[1].m["id"])
  /\ where[1]["age"] = Scalar(obj[1].m["age"])
  /\ Cardinality(DOMAIN working) > 1

\* An insert with a where object passed left the where object as it was
C40_WitnessInsert ==
  /\ pc[1] = "done" /\ stmt[1].kind = "INSERT" /\ err[1] = 0
  /\ where[1] = [updatedAt |-> OpMap(<<>>)]


\* C33: every query of a call on a model goes to the client that was
\* registered under the model's client name when the call was made, and a
\* call made while no client is registered under that name throws an error
\* with code 500 and sends no query.
C33_ClientAtCall ==
  LET c == box.call
  IN /\ (c.kind # "none" /\ c.atCall # NoPool) =>
          /\ \A i \in DOMAIN c.sent : c.sent[i].pool = c.atCall
          /\ c.thrown = "none"
     /\ (c.kind # "none" /\ c.atCall = NoPool) =>
          /\ c.pc = "thrown" /\ c.thrown = "BoxError" /\ c.code = NoClient
          /\ c.sent = <<>>

\* C37: the dialect that builds a statement of a call on a model is the
\* driver of the client registered under the model's client name, whatever
\* clients were registered under other names.
C37_DialectOfOwnClient ==
  \A i \in DOMAIN box.call.sent :
    box.call.sent[i].dialect # "none" =>
      box.call.sent[i].dialect = box.call.sent[i].pool.driver


\* C32: get called with a record in place of an id issues no query and
\* gives the caller that same record, without an error.
C32_RecordShortCircuit ==
  \A p \in Procs :
    op[p].kind = "getRecord" =>
      /\ op[p].gets = 0
      /\ op[p].err = 0
      /\ op[p].out = {obj[p]}


\* C34: for every descriptor and every row, the record read from the row,
\* written back to sources and read again is the record read from the row;
\* the record has the columns whose source the row has, with the row's
\* values (falsy ones too), and nothing else.
C34_RoundTrip ==
  conv.step = 3 =>
    /\ conv.again = conv.record
    /\ \A i \in DOMAIN conv.columns :
         IF conv.columns[i].source \in DOMAIN conv.row
           THEN /\ conv.columns[i].name \in DOMAIN conv.record
                /\ conv.record[conv.columns[i].name] = conv.row[conv.columns[i].source]
           ELSE conv.columns[i].name \notin DOMAIN conv.record
    /\ DOMAIN conv.record \subseteq {conv.columns[i].name : i \in DOMAIN conv.columns}


\* The starts and ends of the callbacks of the list, in the order they
\* happened
IsHookEvent(e) == e.ev \in {"start", "end"}
HookEvents == SelectSeq(hk.log, IsHookEvent)

\* Position i of the log is the end of a callback that signals an error
ErrAt(i) == hk.log[i].ev = "end" /\ hk.list[hk.log[i].k] = "err"

\* C35: the callbacks of a hook list start in list order, each after the
\* end of the one before it and on the record the earlier ones marked; after
\* a callback signalled an error no callback starts and no step of the
\* pipeline runs: ROLLBACK is sent and the error is passed to the callback
\* of save, once.
C35_HookList ==
  /\ \A i \in DOMAIN HookEvents :
       IF i % 2 = 1
         THEN /\ HookEvents[i].ev = "start"
              /\ i > 1 => HookEvents[i].k > HookEvents[i - 1].k
              /\ HookEvents[i].seen = [j \in 1..((i - 1) \div 2) |-> HookEvents[2 * j].k]
              /\ \A j \in fnsOf(hk.list) : j < HookEvents[i].k =>
                   \E n \in 1..(i - 1) : HookEvents[n].k = j
         ELSE HookEvents[i].ev = "end" /\ HookEvents[i].k = HookEvents[i - 1].k
  /\ \A i \in DOMAIN hk.log :
       ErrAt(i) =>
         /\ hk.pc = "done" /\ hk.err = HookErr /\ hk.callbacks = 1
         /\ Len(hk.log) = i + 2
         /\ hk.log[i + 1].ev = "ROLLBACK" /\ hk.log[i + 2].ev = "callback"
  /\ (hk.pc = "done" /\ hk.err = 0) =>
       /\ {HookEvents[i].k : i \in DOMAIN HookEvents} = fnsOf(hk.list)
       /\ hk.callbacks = 1

\* beforeSave = [ok, <no function>, err]: the first ran, the third ran on
\* the record the first had marked and failed the save before the write
C35_Witness ==
  /\ hk.hook = "beforeSave" /\ hk.list = <<"ok", "notFunction", "err">>
  /\ hk.pc = "done" /\ hk.err = HookErr
  /\ HookEvents = << Event("start", 1, <<>>), Event("end", 1, <<1>>),
                     Event("start", 3, <<1>>), Event("end", 3, <<1, 3>>) >>
  /\ \A i \in DOMAIN hk.log : hk.log[i].ev \notin {"saved", "commitTxn"}

\* A list of three callbacks that all signal completion
C35_WitnessAll ==
  /\ hk.list = <<"ok", "ok", "ok">> /\ hk.pc = "done" /\ hk.err = 0
  /\ Len(HookEvents) = 6


Names(b) == \E i \in DOMAIN sib.spec : sib.spec[i] = b

\* C36: once an include with an array spec has completed, the user has the
\* relations the branches name, whatever the order of the answers, and when
\* a branch is {posts: 'comments'} the posts attached to the user carry
\* their comments, also when another branch names posts.
C36_SiblingsMerge ==
  sib.pc = "done" =>
    /\ (sib.posts # 0) <=> (Names("posts") \/ Names("postsComments"))
    /\ sib.comments <=> Names("comments")
    /\ (Names("postsComments") /\ sib.nposts > 0) => sib.posts \in sib.carried


\* C31: a public operation called with a callback calls it back, once and
\* never more, with an error or with a result and never with both, as long
\* as the driver answers every query; also for an object passed to get, an
\* undefined relation, an undefined column in select or order, and an
\* unknown validator.
C31_CallbackOnce ==
  /\ [](cbk.callbacks <= 1 /\ ~(cbk.err # 0 /\ cbk.result))
  /\ (cbk.op # "none") ~> (cbk.callbacks = 1)

====
